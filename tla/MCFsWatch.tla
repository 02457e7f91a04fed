------------------------------ MODULE MCFsWatch ------------------------------
(* Instances of FsWatch for TLC: the queue alone and the whole watch.      *)
EXTENDS FsWatch, TLC

CONSTANTS build, test

\* odd events match one rule, every third the other, some both, some none
Pattern == [e \in 1 .. MaxEvents |->
              {r \in Rules : (r = build /\ e % 2 = 1) \/ (r = test /\ e % 3 # 2)}]
=============================================================================
