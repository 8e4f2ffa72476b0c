----------------------------- MODULE CommandLine -----------------------------
(***************************************************************************)
(* main (src/src/main.rs): the record and replay commands.  record takes   *)
(* bytecode, or a project it builds with forc, finds an ABI and debug      *)
(* symbols, and chooses between a source-level trace and a trace of a      *)
(* disassembly listing; the recorders have modules of their own.  replay   *)
(* composes with Replay.                                                   *)
(*                                                                         *)
(* Files are "good", "bad" or absent (None).  An ABI or symbols are bad if *)
(* they cannot be read or parsed; bytecode only if it cannot be read.      *)
(* Bytes that are no program are recorded as one, and fail or not in the   *)
(* recorder.                                                               *)
(***************************************************************************)
EXTENDS Replay

File == {None, "good", "bad"}

Args == [ command : {"record", "replay", "version"},
          bytecode : File,
          project_dir : {None, "missing", "no_toml", "project"},
          abi : File,
          debug_symbols : File,
          out_dir : {None, "flag"} ]

ASSUME DirAssumption == {"flag", "env", "default"} \subseteq Dir
ASSUME MarkAssumption == None \notin {"", "flag", "env", "good", "bad"}

Env == [out_dir : {None, "", "env"}, disabled : {None, "1", "true", "0"}]

VARIABLES
  args, env,
  status,     \* start -> [project -> built ->] chosen -> ok or error
  abi,        \* the ABI the trace is recorded with
  found,      \* the symbols beside the bytecode: a JSON map, a DWARF object
  symbols,    \* the symbols chosen
  build_dir,  \* the private build directory exists
  written     \* what was written for the user: where, and what

cliVars == <<args, env, status, abi, found, symbols, build_dir, written>>

vars == <<cliVars, replayVars>>

------------------------------------------------------------------------------

MutantEnvWins ==
  IF env.out_dir \notin {None, ""} THEN env.out_dir
  ELSE IF args.out_dir # None THEN args.out_dir ELSE "default"

ResolveOutDir ==
  IF args.out_dir # None THEN args.out_dir
  ELSE IF env.out_dir \notin {None, ""} THEN env.out_dir
  ELSE "default"

RecordingDisabled == env.disabled \in {"1", "true"}

(* The candidates in their order: any JSON map before any object. *)
MutantDiscoverJson(beside) == [file |-> beside.json, form |-> "json"]

Discover(beside) ==
  IF beside.json # None THEN [file |-> beside.json, form |-> "json"]
                        ELSE [file |-> beside.obj, form |-> "obj"]

(* An error ends the program; the temporary directory is dropped. *)
Exit(result) == status' = result /\ build_dir' = FALSE

Disabled ==
  /\ status = "start" /\ args.command # "version" /\ RecordingDisabled
  /\ Exit("ok")
  /\ UNCHANGED <<args, env, abi, found, symbols, written, replayVars>>

Version ==
  /\ status = "start" /\ args.command = "version"
  /\ Exit("ok")
  /\ UNCHANGED <<args, env, abi, found, symbols, written, replayVars>>

(* record up to the choice of its mode: the ABI given is loaded first.     *)
RecordBegins ==
  /\ status = "start" /\ args.command = "record" /\ ~RecordingDisabled
  /\ IF args.abi = "bad"
       THEN Exit("error") /\ UNCHANGED <<abi, found, symbols>>
       ELSE /\ abi' = args.abi
            /\ IF args.bytecode = None
                 THEN status' = "project" /\ UNCHANGED <<build_dir, found, symbols>>
                 ELSE /\ status' = "chosen"
                      /\ found' \in [json : File, obj : File]
                      /\ symbols' = IF args.debug_symbols # None
                                    THEN [file |-> args.debug_symbols, form |-> "given"]
                                    ELSE Discover(found')
                      /\ UNCHANGED build_dir
  /\ UNCHANGED <<args, env, written, replayVars>>

(* The project is checked and built into a fresh directory. *)
BuildProject ==
  /\ status = "project"
  /\ \/ Exit("error")      \* no project, no Forc.toml, no forc, forc fails
     \/ args.project_dir = "project" /\ status' = "built" /\ build_dir' = TRUE
  /\ UNCHANGED <<args, env, abi, found, symbols, written, replayVars>>

(* single_bin_in, discover and the ABI forc wrote, if none was given: no   *)
(* single .bin, no symbols or a bad ABI is an error.                       *)
TakeArtefacts ==
  /\ status = "built"
  /\ \/ Exit("error") /\ UNCHANGED <<abi, found, symbols>>
     \/ /\ found' \in [json : File, obj : File]
        /\ Discover(found').file # None
        /\ symbols' = Discover(found')
        /\ \E forc_abi \in {None, "good"} :
             /\ abi' = IF abi # None THEN abi ELSE forc_abi
             /\ status' = "chosen" /\ UNCHANGED build_dir
  /\ UNCHANGED <<args, env, written, replayVars>>

Wrote(what) == written \union {[dir |-> ResolveOutDir, what |-> what]}

MutantListingForBadSymbols ==
  /\ status = "chosen"
  /\ \/ args.bytecode = "bad" /\ Exit("error") /\ UNCHANGED written
     \/ /\ args.bytecode # "bad" /\ symbols.file = "good"
        /\ Exit("ok") /\ written' = Wrote("source_trace")
     \/ /\ args.bytecode # "bad" /\ symbols.file # "good"
        /\ Exit("ok") /\ written' = Wrote("listing") \union Wrote("listing_trace")
  /\ UNCHANGED <<args, env, abi, found, symbols, replayVars>>

(* record_bytecode.  The recorder may fail before, while or after it       *)
(* writes; so may the listing.                                             *)
RecordBytecode ==
  /\ status = "chosen"
  /\ \/ /\ "bad" \in {args.bytecode, symbols.file}
        /\ Exit("error") /\ UNCHANGED written
     \/ /\ args.bytecode # "bad" /\ symbols.file = "good"
        /\ \/ Exit("ok") /\ written' = Wrote("source_trace")
           \/ Exit("error") /\ written' \in {written, Wrote("source_trace")}
     \/ /\ args.bytecode # "bad" /\ symbols.file = None
        /\ \/ Exit("ok") /\ written' = Wrote("listing") \union Wrote("listing_trace")
           \/ /\ Exit("error")
              /\ written' \in {written, Wrote("listing"),
                               Wrote("listing") \union Wrote("listing_trace")}
  /\ UNCHANGED <<args, env, abi, found, symbols, replayVars>>

RunReplay ==
  /\ status = "start" /\ args.command = "replay" /\ ~RecordingDisabled
  /\ status' = "replaying"
  /\ config' = [config EXCEPT !.output_dir = ResolveOutDir]
  /\ stage' = "transaction"
  /\ UNCHANGED <<args, env, abi, found, symbols, build_dir, written, tx_data,
                 contract_ids, next, contracts, source_info, dry_run_result, summary, log>>

ReplayStep == ReplayNext /\ UNCHANGED cliVars

ReplayReturns ==
  /\ status = "replaying" /\ stage \in Ended
  /\ Exit(IF stage = "done" THEN "ok" ELSE "error")
  /\ UNCHANGED <<args, env, abi, found, symbols, written, replayVars>>

Exited == status \in {"ok", "error"}

Done == Exited /\ UNCHANGED vars

------------------------------------------------------------------------------

Init ==
  /\ ReplayInit /\ config.output_dir = "default"
  /\ args \in Args /\ env \in Env
  /\ args.command # "replay" => config.source_dir = None /\ ~config.historical_execution
  /\ args.command # "record" =>
       args.bytecode = None /\ args.project_dir = None
         /\ args.abi = None /\ args.debug_symbols = None
  /\ status = "start" /\ abi = None /\ build_dir = FALSE /\ written = {}
  /\ found = [json |-> None, obj |-> None]
  /\ symbols = [file |-> None, form |-> "given"]

Next ==
  \/ Disabled \/ Version
  \/ RecordBegins \/ BuildProject \/ TakeArtefacts \/ RecordBytecode
  \/ RunReplay \/ ReplayStep \/ ReplayReturns
  \/ Done

(* One thread; requests to the node time out, forc ends.                   *)
Spec == Init /\ [][Next]_vars /\ WF_vars(Next)

------------------------------------------------------------------------------
(* Properties.                                                             *)

(* Every variable keeps its type. *)
TypeOK ==
  /\ ReplayTypeOK
  /\ args \in Args /\ env \in Env
  /\ status \in {"start", "project", "built", "chosen", "replaying", "ok", "error"}
  /\ abi \in File /\ found \in [json : File, obj : File]
  /\ symbols \in [file : File, form : {"given", "json", "obj"}]
  /\ build_dir \in BOOLEAN
  /\ written \subseteq [dir : Dir, what : {"listing", "listing_trace", "source_trace"}]

(* Where something was written.                                            *)
Touched ==
  {w.dir : w \in written} \union (IF summary = None THEN {} ELSE {config.output_dir})

(* Whatever is written is written in one directory: the flag's, which      *)
(* always wins, else the variable's unless it is empty.  A disabled        *)
(* recorder writes nothing, builds nothing and asks nothing of a node      *)
(* (main.rs:24-28).                                                        *)
OnlyOutDirTouched ==
  /\ env.disabled \in {"1", "true"} => Touched = {} /\ log = <<>> /\ ~build_dir
  /\ \A dir \in Touched :
    \/ dir = "flag" /\ args.out_dir = "flag"
    \/ dir = "env" /\ args.out_dir = None /\ env.out_dir = "env"
    \/ dir = "default" /\ args.out_dir = None /\ env.out_dir # "env"

(* Nothing is written from an input that is bad, given or discovered, and  *)
(* nothing is left of a build.                                             *)
OnlyGoodInputsRecorded ==
  /\ written # {} => "bad" \notin {args.bytecode, args.abi, abi, symbols.file}
  /\ Exited => ~build_dir

(* The listing is the last resort: bytecode with no symbols given and none *)
(* beside it.  A project's trace is always of its source, and the complete *)
(* JSON map is preferred to the DWARF one (main.rs:134-139,                *)
(* debug_info.rs:19-23).                                                   *)
ListingIsLastResort ==
  /\ \A w \in written :
       w.what # "source_trace" =>
         args.bytecode # None /\ args.debug_symbols = None
           /\ found = [json |-> None, obj |-> None]
  /\ written # {} /\ symbols.form = "obj" => found.json = None

(* The program ends. *)
ProgramEnds == <>Exited
==============================================================================
