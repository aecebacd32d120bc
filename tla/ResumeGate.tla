------------------------------ MODULE ResumeGate ------------------------------
(***************************************************************************)
(* How a run comes to its settings and inputs, and when -resume may go on: *)
(* the defaults of main_config.go under the command line, the state file's *)
(* arguments, digests and settings in main_resume.go, and the order run of *)
(* main.go reads and checks them in.  Between and during the runs the user *)
(* changes the environment, the config file and the input files.           *)
(*                                                                         *)
(* One simulated target; a digest stands for the content it is taken of.   *)
(* What the scan between start and interrupt does is module ResumeRun.     *)
(***************************************************************************)
EXTENDS Naturals

CONSTANTS
  Setting, Unsaved,   \* the settings, and unsavedSettings
  Value, Default,     \* their values
  Absent, Bad,        \* not given, and a value a flag does not take
  Content, Gone,      \* what an input file holds, or that it cannot be read
  MaxStarts, MaxEdits   \* bounds: runs, and changes by the user

Input == {"wordlist", "excludes"}
Seeds == {1, 2}

(* A seed that is not given differs from every seed.                           *)
ASSUME GateAssumption == Absent \notin Seeds \cup {0}

VARIABLES
  configFile, env, seedEnv,  \* the config file, SUBENUM_*, SUBENUM_SEED (0: unset)
  disk, bundled,             \* the input files; -w omitted: the binary's list
  gatePc,                    \* where run is
  args, seedArg,             \* the command line, or the state file's
  resumed, values, unfit, seed, read,  \* resume, the flags' values, parseErr, f.seed, inputs read
  state,                     \* the state file
  original,                  \* history: values, seed and inputs of the run not resumed
  stable,                    \* history: no input changed while a run was using it
  starts, edits

userVars == <<configFile, env, seedEnv, disk, stable, edits>>
startVars == <<args, seedArg, resumed, values, unfit, seed, read>>
gateVars == <<userVars, bundled, gatePc, startVars, state, original, starts>>

NothingSaved == [args |-> [s \in Setting |-> Absent], saved |-> FALSE]
Nowhere == [s \in Setting |-> Absent]
Unread == [i \in Input |-> Gone]

GateInit ==
  /\ configFile = Nowhere /\ env = Nowhere /\ seedEnv = 0
  /\ disk \in [Input -> Content] /\ bundled \in BOOLEAN
  /\ gatePc = "off"
  /\ args \in [Setting -> {Absent, Default}] /\ seedArg \in {Absent, 0, 1}
  /\ resumed = FALSE /\ values = Nowhere /\ unfit = FALSE /\ seed = 0 /\ read = Unread
  /\ state = NothingSaved
  /\ original = [values |-> Nowhere, seed |-> 0, read |-> Unread]
  /\ stable = TRUE /\ starts = 0 /\ edits = 0

-----------------------------------------------------------------------------
(* The user. *)

Edit ==
  /\ edits < MaxEdits /\ edits' = edits + 1
  /\ \/ \E s \in Setting, v \in Value \cup {Absent, Bad} :
          \/ configFile' = [configFile EXCEPT ![s] = v] /\ UNCHANGED env
          \/ env' = [env EXCEPT ![s] = v] /\ UNCHANGED configFile
        /\ UNCHANGED <<seedEnv, disk, stable>>
     \/ seedEnv' \in Seeds \cup {0} /\ UNCHANGED <<configFile, env, disk, stable>>
     \/ /\ \E i \in Input, c \in Content \cup {Gone} :
             /\ bundled /\ i = "wordlist" => c # Gone /\ gatePc = "off"
             /\ disk' = [disk EXCEPT ![i] = c]
        /\ stable' = (stable /\ gatePc = "off")
        /\ UNCHANGED <<configFile, env, seedEnv>>
  /\ UNCHANGED <<bundled, gatePc, startVars, state, original, starts>>

-----------------------------------------------------------------------------
(* A run's start. *)

Begin(r) ==
  /\ gatePc = "off" /\ starts < MaxStarts /\ starts' = starts + 1
  /\ gatePc' = "config" /\ resumed' = r
  /\ values' = [s \in Setting |-> Default] /\ unfit' = FALSE /\ seed' = 0 /\ read' = Unread

(* A user with a state file resumes it.                                        *)
StartNew ==
  /\ ~state.saved /\ Begin(FALSE) /\ stable' = TRUE
  /\ UNCHANGED <<configFile, env, seedEnv, disk, edits, bundled, args, seedArg, state, original>>

(* -resume takes no other arguments: resumeArgs puts the saved ones in place.  *)
StartResumed ==
  /\ state.saved /\ Begin(TRUE)
  /\ args' = state.args /\ seedArg' = state.seedArg
  /\ UNCHANGED <<userVars, bundled, state, original>>

Over(given) == [s \in Setting |-> IF given[s] \in Value THEN given[s] ELSE values[s]]

Apply(pc, given, next) ==
  /\ gatePc = pc /\ gatePc' = next
  /\ values' = Over(given) /\ unfit' = (unfit \/ \E s \in Setting : given[s] = Bad)
  /\ UNCHANGED <<userVars, bundled, args, seedArg, resumed, seed, read, state, original, starts>>

ApplyConfig == Apply("config", configFile, "env")
ApplyEnv == Apply("env", env, "flags")

Refuse == gatePc' = "off"

(* The command line is parsed last; then a bad default refuses the run, and a  *)
(* simulation without a seed draws one.                                        *)
ParseFlags ==
  /\ gatePc = "flags"
  /\ values' = Over(args)
  /\ \/ unfit /\ Refuse /\ UNCHANGED seed
     \/ /\ ~unfit /\ gatePc' = "excludes"
        /\ LET given == IF seedArg # Absent THEN seedArg ELSE seedEnv
           IN seed' \in (IF given = 0 THEN Seeds ELSE {given})
  /\ UNCHANGED <<userVars, bundled, args, seedArg, resumed, unfit, read, state, original, starts>>

LoadExcludes ==
  /\ gatePc = "excludes"
  /\ read' = [read EXCEPT !["excludes"] = disk["excludes"]]
  /\ IF read'["excludes"] = Gone THEN Refuse ELSE gatePc' = "inputs"
  /\ UNCHANGED <<userVars, bundled, args, seedArg, resumed, values, unfit, seed, state, original, starts>>

(* inputDigests: of the files given, as they are now.                          *)
Digested == IF bundled THEN {"excludes"} ELSE Input
Digests == [i \in Digested |-> disk[i]]
Readable == \A i \in Digested : disk[i] # Gone

CheckInputs ==
  /\ gatePc = "inputs"
  /\ IF resumed /\ ~(Readable /\ state.inputs = Digests) THEN Refuse ELSE gatePc' = "settings"
  /\ UNCHANGED <<userVars, bundled, startVars, state, original, starts>>

(* Every saved setting must have the value it had, wherever it comes from.     *)
SameAsGiven(s) == args[s] # Absent => values[s] = state.settings[s]
SameSetting(s) == values[s] = state.settings[s]

CheckSettings ==
  /\ gatePc = "settings"
  /\ IF resumed /\ \E s \in Setting \ Unsaved : ~SameSetting(s) THEN Refuse
     ELSE gatePc' = "wordlist"
  /\ UNCHANGED <<userVars, bundled, startVars, state, original, starts>>

(* The wordlist is read after its digest was checked, and its entries are      *)
(* compared once more.                                                         *)
ReadWordlist ==
  /\ gatePc = "wordlist"
  /\ read' = [read EXCEPT !["wordlist"] = disk["wordlist"]]
  /\ \/ /\ read'["wordlist"] = Gone \/ (resumed /\ read'["wordlist"] # state.entries)
        /\ Refuse /\ UNCHANGED original
     \/ /\ read'["wordlist"] # Gone /\ (resumed => read'["wordlist"] = state.entries)
        /\ gatePc' = "scan"
        /\ original' = IF resumed THEN original ELSE [values |-> values, seed |-> seed, read |-> read']
  /\ UNCHANGED <<userVars, bundled, args, seedArg, resumed, values, unfit, seed, state, starts>>

-----------------------------------------------------------------------------
(* A run's end. *)

(* withSeed adds the seed unless the arguments hold one.                       *)
WithSeed == IF seedArg = Absent THEN seed ELSE seedArg

(* saveResumeState: the digests are taken now, the entries' when they were     *)
(* read.                                                                       *)
Interrupted ==
  /\ gatePc = "scan" /\ gatePc' = "off"
  /\ state' = IF ~Readable THEN state
              ELSE [saved |-> TRUE, args |-> args,
                    seedArg |-> WithSeed, inputs |-> Digests, entries |-> read["wordlist"],
                    settings |-> [s \in Setting \ Unsaved |-> values[s]]]
  /\ UNCHANGED <<userVars, bundled, startVars, original, starts>>

(* A run that ends spends its state file, one that is killed does not.         *)
Ends ==
  /\ gatePc = "scan" /\ gatePc' = "off"
  /\ state' \in {state, IF resumed THEN NothingSaved ELSE state}
  /\ UNCHANGED <<userVars, bundled, startVars, original, starts>>

GateNext ==
  \/ Edit \/ StartNew \/ StartResumed \/ ApplyConfig \/ ApplyEnv \/ ParseFlags \/ LoadExcludes
  \/ CheckInputs \/ CheckSettings \/ ReadWordlist \/ Interrupted \/ Ends

GateSpec == GateInit /\ [][GateNext]_gateVars
=============================================================================
