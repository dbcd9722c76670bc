---------------------------- MODULE MCModelRunner ----------------------------
(* Instances of ModelRunner for TLC.                                       *)
EXTENDS ModelRunner

CONSTANTS mnist, mnistCopy, resnet

\* The directory is named after the file: mnistCopy is a model of the same
\* file name in another directory.
MC_OutputDir == [m \in Models |-> IF m \in {mnist, mnistCopy} THEN "mnist.mlir.ttnn"
                                                            ELSE "resnet.ttnn.ttnn"]
=============================================================================
