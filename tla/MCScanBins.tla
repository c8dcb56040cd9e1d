----------------------------- MODULE MCScanBins -----------------------------
(* Values for the constants of ScanBins that a .cfg cannot write. *)
EXTENDS ScanBins

\* All orders of up to two positions, one of them too near, and messages with
\* many near points, the mean of which thinning moves.
UpToTwo ==
  {msg \in UNION {[1 .. n -> {0, 12, 20, 44, 72, 104}] : n \in 1 .. 2} :
     \A i, j \in DOMAIN msg : i # j => msg[i] # msg[j]}

ManyNear ==
  {<<4, 8, 12, 16, 20, 44, 72, 76, 104>>, <<12, 4, 20, 16, 44, 104>>,
   <<8, 52, 4, 20, 32, 48, 12>>, <<36, 60>>}

ScanMessages == UpToTwo \cup ManyNear

FinerNear == <<8, 8, 16, 32>>
LargerNear == <<2, 1, 1, 1>>

WorldPositions ==
  {msg[i] + shift : <<msg, i, shift>> \in
     {<<msg, i, shift>> \in ScanMessages \X (1 .. 9) \X {0, 36} :
        i \in DOMAIN msg}}
=============================================================================
