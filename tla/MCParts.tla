------------------------------- MODULE MCParts -------------------------------
(* The components that are small enough to share one run: a behaviour is one  *)
(* of a single component, and the others stay as they start.                  *)
EXTENDS DiffProps, LibraryProps, TuiProps, TakeoverProps, DotProps,
        OutputProps, LabServerProps
CONSTANTS kept, fresh, beyond, other, gone, outside, foreign, w1, w2, w3,
          tcp
VARIABLE part

(* -diff: of the previous names one is still found, one resolves but is no    *)
(* candidate, one exists with records of other types only, one is gone, one   *)
(* is excluded and one belongs to another target.                             *)
MCWorkers == {w1, w2}
MCCandidates == {kept, fresh}
MCPrevious == {kept, beyond, other, gone, outside, foreign}
MCResolving == {kept, fresh, beyond}
MCExisting == MCResolving \cup {other, outside, foreign}
MCInTargets == {kept, fresh, beyond, other, gone, outside}
MCExcluded == {outside}

partVars == <<diffVars, libVars, tuiVars, hintVars, dotVars, outVars, labVars>>

PartsInit ==
  /\ part \in {"diff", "library", "tui", "hint", "dot", "output", "server"}
  /\ DiffInit /\ LibInit /\ TuiInit /\ HintInit /\ DotInit /\ OutInit /\ LabInit
  /\ part # "library" => guardKind = "none"
  /\ part # "output" => ~inJSON /\ ~direct
  /\ part # "server" \/ serial => closeAfter = 0
  /\ part # "server" => ~serial

PartsNext ==
  \/ /\ part = "diff" /\ DiffNext
     /\ UNCHANGED <<part, libVars, tuiVars, hintVars, dotVars, outVars, labVars>>
  \/ /\ part = "library" /\ LibNext
     /\ UNCHANGED <<part, diffVars, tuiVars, hintVars, dotVars, outVars, labVars>>
  \/ /\ part = "tui" /\ TuiNext
     /\ UNCHANGED <<part, diffVars, libVars, hintVars, dotVars, outVars, labVars>>
  \/ /\ part = "hint" /\ HintNext
     /\ UNCHANGED <<part, diffVars, libVars, tuiVars, dotVars, outVars, labVars>>
  \/ /\ part = "dot" /\ DotNext
     /\ UNCHANGED <<part, diffVars, libVars, tuiVars, hintVars, outVars, labVars>>
  \/ /\ part = "output" /\ OutNext
     /\ UNCHANGED <<part, diffVars, libVars, tuiVars, hintVars, dotVars, labVars>>
  \/ /\ part = "server" /\ LabNext
     /\ UNCHANGED <<part, diffVars, libVars, tuiVars, hintVars, dotVars, outVars>>

(* The fairness of each component, in the behaviours that are its own. *)
PartsFairness ==
  /\ WF_libVars(part = "library" /\ Emit) /\ WF_libVars(part = "library" /\ Forward)
  /\ WF_tuiVars(part = "tui" /\ Engines) /\ WF_tuiVars(part = "tui" /\ Listeners)
  /\ WF_tuiVars(part = "tui" /\ Handled)
  /\ \A a \in Asker : WF_hintVars(part = "hint" /\ HintStep(a))
  /\ WF_labVars(part = "server" /\ ServerStep)

PartsSpec ==
  PartsInit /\ [][PartsNext]_<<part, partVars>> /\ PartsFairness
=============================================================================
