----------------------------- MODULE CommandLine -----------------------------
(***************************************************************************)
(* Which command lines the Host accepts (parse_cli in config_loader.cpp)    *)
(* and what it then does (run_main in main.cpp).  A command line is the set *)
(* of its flags: their order and their values do not matter to the rules.   *)
(***************************************************************************)
EXTENDS Integers, FiniteSets, Sequences, SequencesExt

CONSTANT MaxFlags   \* bound on the flags of one command line

VARIABLE flags

commandVars == <<flags>>

\* An unknown argument, --help and a flag without its value end parsing.
Bad == {"unknown", "help", "valueless"}
Sources == {"synthesize", "stdin", "clipboard"}
Sinks == {"out", "play"}
Choosers == {"runner", "model", "language"}

\* What run_main does with a headless command line, in this order.
Operations ==
  <<"import_model", "list_models", "list_catalogue", "download_model", "update_model",
    "revert_model", "delete_previous_model", "remove_superseded_model", "verify_model">>

CliFlags == ToSet(Operations) \union Sources \union Sinks \union Choosers \union {"stats"}
Flags == CliFlags \union Bad \union {"headless", "settings", "model_directory", "config", "data_dir"}

Given(F, S) == Cardinality(F \intersect S)

LanguageAlone(F) == Given(F, {"runner", "model"}) = 0 /\ Given(F, Sources) = 1

Headless(F) ==
  /\ "settings" \notin F
  /\ Given(F, Sources) <= 1
  /\ Given(F, Sources) = 1 <=> Given(F, Sinks) > 0
  /\ ~({"runner", "model"} \subseteq F)
  /\ "model" \in F => Given(F, Sources) = 1
  /\ "language" \in F => LanguageAlone(F)
  /\ "stats" \in F => Given(F, Sources) = 1

\* requests_cli_action, which does not ask for list_catalogue.
Desktop(F) == F \intersect (CliFlags \ {"list_catalogue"}) = {}

Accepted(F) ==
  /\ F \intersect Bad = {}
  /\ IF "headless" \in F THEN Headless(F) ELSE Desktop(F)

\* resolve_selection's order of precedence.
Chooser(F) ==
  IF "runner" \in F THEN "runner"
  ELSE IF "model" \in F THEN "model" ELSE IF "language" \in F THEN "language" ELSE "text"

\* resolve_input_text's order of precedence.
Source(F) ==
  IF "synthesize" \in F THEN "synthesize" ELSE IF "stdin" \in F THEN "stdin" ELSE "clipboard"

Speech(F) ==
  IF Given(F, Sources) = 0 THEN {}
  ELSE {[text |-> Source(F), to |-> F \intersect Sinks, by |-> Chooser(F), stats |-> "stats" \in F]}

\* resolve_config_path and resolve_data_dir
Paths(F) ==
  <<IF "config" \in F THEN "config" ELSE IF "data_dir" \in F THEN "data_dir" ELSE "installed",
    IF "data_dir" \in F THEN "data_dir" ELSE "installed">>

Effect(F) ==
  IF ~Accepted(F) THEN [does |-> "nothing"]
  ELSE IF "headless" \in F
       THEN [does |-> SelectSeq(Operations, LAMBDA op : op \in F), speaks |-> Speech(F),
             into |-> IF {"download_model", "model_directory"} \subseteq F THEN "named" ELSE "first",
             paths |-> Paths(F)]
       ELSE [does |-> IF "settings" \in F THEN "settings" ELSE "tray", paths |-> Paths(F)]

CommandInit == flags = {}

AddFlag ==
  /\ Cardinality(flags) < MaxFlags
  /\ \E f \in Flags \ flags : flags' = flags \union {f}

CommandSpec == CommandInit /\ [][AddFlag]_commandVars

-----------------------------------------------------------------------------

\* An accepted command line does what every one of its flags asks: none is
\* silently ignored, whatever the others are, with or without --headless.
NoFlagIsIgnored ==
  Accepted(flags) => \A f \in flags : Effect(flags \ {f}) # Effect(flags)
=============================================================================
