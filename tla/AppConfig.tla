------------------------------ MODULE AppConfig ------------------------------
(***************************************************************************)
(* The command line, src/core/config.cpp: a sequence of strings becomes a  *)
(* configuration, an exception or an exit.  Every rank parses the same     *)
(* command line; the results differ in what a rank prints, which is left   *)
(* out, and in is_gateway, which is rank = 0.                              *)
(***************************************************************************)
EXTENDS Integers, SequencesExt

CONSTANTS
    IntOf,          \* [strings -> Int \cup {Thrown}]: what from_chars reads
    Thrown          \* the result of whatever throws

IntOptions  == {"--n_ctx", "--n_gpu_layers", "--ngl", "--seed"}
TextOptions == {"--model", "--topology"}
Flags       == {"--no-flash-attn", "--quiet"}

DefaultConfig ==
    [model_path |-> "model.gguf", n_ctx |-> 4096, n_gpu_layers |-> 35,
     seed |-> 0, topology_path |-> ""]

\* The field an option sets.
Field(option) ==
    CASE option = "--model"    -> "model_path"
      [] option = "--topology" -> "topology_path"
      [] option = "--n_ctx"    -> "n_ctx"
      [] option = "--seed"     -> "seed"
      [] option \in {"--n_gpu_layers", "--ngl"} -> "n_gpu_layers"

\* parse_int_arg and parse_str_arg: nothing empty, and an int in its range.
ArgumentOf(option, text) ==
    IF option \in IntOptions THEN IntOf[text]
    ELSE IF text = "" THEN Thrown ELSE text

\* One argument: the value of the option before it, or an option.  What
\* follows an option is its value even when it looks like an option.
ParseArgument(state, arg) ==
    IF state.outcome # "parsing" THEN state
    ELSE IF state.option # ""
    THEN LET value == ArgumentOf(state.option, arg)
         IN  IF value = Thrown
             THEN [state EXCEPT !.outcome = "thrown"]
             ELSE [state EXCEPT !.option = "",
                                !.cfg[Field(state.option)] = value]
    ELSE IF arg \in IntOptions \cup TextOptions
    THEN [state EXCEPT !.option = arg]
    ELSE IF arg \in {"--help", "-h"} THEN [state EXCEPT !.outcome = "exit"]
    ELSE IF arg \in Flags THEN state
    ELSE [state EXCEPT !.outcome = "thrown"]

\* Mutant: an empty context is let through.
MutValidConfig(cfg) ==
    cfg.model_path # "" /\ cfg.n_ctx >= 0 /\ cfg.n_gpu_layers >= -1

\* validate_config; the rank and the size are MPI's own.
ValidConfig(cfg) ==
    cfg.model_path # "" /\ cfg.n_ctx > 0 /\ cfg.n_gpu_layers >= -1

\* "accepted" with a configuration, "thrown", or "exit" for --help.
ParseAppConfig(argv) ==
    LET state == FoldLeft(ParseArgument,
                          [cfg |-> DefaultConfig, option |-> "",
                           outcome |-> "parsing"], argv)
        fine  == /\ state.outcome = "parsing"
                 /\ state.option = ""
                 /\ ValidConfig(state.cfg)
    IN  [cfg |-> state.cfg,
         outcome |-> IF state.outcome = "exit" THEN "exit"
                     ELSE IF fine THEN "accepted" ELSE "thrown"]
=============================================================================
