-------------------------- MODULE LayoutConversion --------------------------
(***************************************************************************)
(* A tensor on its way through both converters: the compiler decomposes    *)
(* the to_layout ops of a function; the caller of the runtime brings a     *)
(* tensor to the layout of the function's argument with toLayout           *)
(* (LayoutConverter) and submits it; the executor runs the created ops.    *)
(***************************************************************************)
EXTENDS LayoutConverter, FiniteSets, SequencesExt

CONSTANTS
    MaxToLayouts,
    IntermediateTypes,  \* the types of all to_layout ops but the last
    MaxConversions      \* bound on the to_layout ops and the caller's toLayout

VARIABLES argType, toLayouts, pass, info, creates, at, currentInput, program,
          replacements,
          tensor,       \* the descriptor of the function's value as it runs
          ran           \* the number of ops of the program that have run

Compiler == INSTANCE DecomposeLayouts

dvars == <<argType, toLayouts, pass, info, creates, at, currentInput, program,
           replacements>>
vars == <<cvars, dvars, tensor, ran>>

NoTensor == [none |-> TRUE]

\* getLayout tells the caller the layout of the function's argument.
Init ==
    /\ Compiler!InitDecompose
    /\ InitConverter
    /\ outputDesc = argType
    /\ Len(toLayouts) + Cardinality({inputDesc} \ {outputDesc}) <= MaxConversions
    /\ tensor = NoTensor
    /\ ran = 0

compile ==
    /\ Compiler!NextDecompose
    /\ UNCHANGED <<cvars, tensor, ran>>

toLayout ==
    /\ pass = "done"
    /\ NextConverter
    /\ UNCHANGED <<dvars, tensor, ran>>

submit ==
    /\ converter = "returned"
    /\ tensor = NoTensor
    /\ tensor' = out
    /\ UNCHANGED <<cvars, dvars, ran>>

\* The operation's run function, as the executor calls it.
runOp ==
    /\ tensor # NoTensor
    /\ ran < Len(program)
    /\ tensor' = apply(program[ran + 1], tensor)
    /\ ran' = ran + 1
    /\ UNCHANGED <<cvars, dvars>>

Next == compile \/ toLayout \/ submit \/ runOp

Spec == Init /\ [][Next]_vars

-----------------------------------------------------------------------------
(* Properties                                                              *)

\* No handler, of the converter or of the pass, calls a ttnn operation on a
\* tensor that the operation cannot take: the device neither casts a
\* row-major tensor nor (un)tilizes a type other than bfloat16, and nothing
\* is moved from where it is not.
OpsSupported ==
    /\ converter = "converting" /\ pc <= Len(steps) /\ steps[pc] # "LOG_FATAL" =>
          LET c == call(steps[pc]) IN c.needed => supported(c, out)
    /\ tensor # NoTensor /\ ran < Len(program) => supported(program[ran + 1], tensor)

\* The check that insertTTNNTensorAndValidate makes: the tensor that an op
\* returns is the one that its result type describes, also when the type is
\* the to_layout's own (to_memory_config); the first op runs on the
\* argument's type.
TensorsMatchTypes ==
    tensor # NoTensor =>
        tensor = IF ran = 0 THEN argType ELSE program[ran].type

\* The requests whose memory config is dropped: device to device, untilized
\* and cast to a type that is untilized on device
\* (TTNNDecomposeLayouts.cpp:843-852).
DropsMemoryConfig(r) ==
    /\ isOnDevice(r.before) /\ isOnDevice(r.op)
    /\ isTilized(r.before) /\ ~isTilized(r.op)
    /\ r.before.dataType # r.op.dataType
    /\ canUntilizeDataTypeOnDevice(r.op.dataType)
    /\ r.before.mem # r.op.mem

\* A to_layout is replaced by a value of its own type.
ReplacementsKeepType ==
    \A n \in DOMAIN replacements : replacements[n].by = replacements[n].op

\* A to_layout is replaced by a value of its own type, the dropped memory
\* configs excepted; and where one is dropped, the rest of the type is right.
OnlyMemoryConfigDropped ==
    \A n \in DOMAIN replacements :
        LET r == replacements[n]
        IN  r.by = IF DropsMemoryConfig(r) THEN [r.op EXCEPT !.mem = r.before.mem]
                   ELSE r.op

\* After the canonicalizer, no to_layout is redundant: "needs an op"
\* (determineRequiredOps) and "has another layout than its input" (the fold)
\* are the same thing, so the pass does not fail.  An input whose memory
\* config was dropped is the one exception.
NoRedundantToLayout ==
    pass = "failed" =>
        \E n \in DOMAIN replacements : DropsMemoryConfig(replacements[n])

=============================================================================
