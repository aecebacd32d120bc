--------------------------- MODULE ResumeGateProps ---------------------------
(* What a resume may rely on: the properties of module ResumeGate.            *)
EXTENDS ResumeGate

(* A resumed run goes on with the scan that was interrupted, however often and *)
(* whatever the user changed meanwhile (#109): with the same settings, from    *)
(* whichever source they come, and the same wordlist; with the same input      *)
(* files, unless one was changed while a run was using it, since the digests   *)
(* are taken at the interrupt; and with the same simulated answers, unless the *)
(* command line asked for seed 0, which is replayed as it is.                  *)
ResumesSameScan ==
  gatePc = "scan" /\ resumed =>
    /\ \A s \in Setting \ Unsaved : values[s] = original.values[s]
    /\ read["wordlist"] = original.read["wordlist"]
    /\ stable => read = original.read
    /\ seedArg # 0 => seed = original.seed

-----------------------------------------------------------------------------
(* What the documentation says and the code does not do. *)

(* README, resuming: "The resumed run refuses to start if an input file ...    *)
(* changed".  One edited while the interrupted run was using it is recorded as *)
(* it is at the interrupt, and the resumed run takes it for unchanged.         *)
InputsUnchanged == gatePc = "scan" /\ resumed => read = original.read
=============================================================================
