---------------------------- MODULE Dispatcher ----------------------------
(***************************************************************************)
(* Dispatcher::new of dispatcher/src/lib.rs: load the configuration,       *)
(* connect to the Ethereum node, test it, create the transaction manager   *)
(* and send the call that instantiates a partition for the concern the     *)
(* configuration lists first.  The command line, the environment and the   *)
(* files are fixed inputs chosen in the initial state; the node and the    *)
(* transaction manager may fail at each step.  The abi is compiled in      *)
(* (include_str!) and its encoding does not depend on the inputs, so it    *)
(* is left out.                                                            *)
(***************************************************************************)
EXTENDS Configuration

CONSTANTS
    CliInputs,  \* EnvCLIConfiguration values structopt can produce
    EnvInputs,  \* EnvCLIConfiguration values envy can produce, or Malformed
    FsInputs    \* functions from config paths to FileConfiguration, Missing or Malformed

(* What structopt, envy and serde_yaml can hand Configuration::new: every *)
(* setting of the command line and the environment is an Option, a delay  *)
(* a u64, a config path one of the paths the files are looked up under,   *)
(* and an abi a path (PathBuf parsing cannot fail); a file that was read   *)
(* has u64 delays.                                                         *)
OptionFields ==
    {"config_path", "url", "testing", "max_delay", "warn_delay",
     "concern_contract", "concern_user", "concern_abi", "working_path"}

IsOption(o) == o = None \/ o = <<o[1]>>

ASSUME InputsAssumption ==
    /\ \A src \in CliInputs \cup (EnvInputs \ {EnvMalformed}) :
          /\ \A f \in OptionFields : IsOption(src[f])
          /\ \A f \in {"max_delay", "warn_delay"} : src[f] = None \/ src[f][1] \in U64
          /\ src.config_path = None \/ src.config_path[1] \in ConfigPaths
          /\ src.concern_abi = None \/ src.concern_abi[1] # Malformed
    /\ \A fsi \in FsInputs :
          /\ DOMAIN fsi = ConfigPaths \cup {DefaultConfigPath}
          /\ \A p \in DOMAIN fsi :
                fsi[p] \notin {FileMissing, FileMalformed} =>
                  \A f \in {"max_delay", "warn_delay"} :
                     fsi[p][f] = None \/ fsi[p][f][1] \in U64

VARIABLES
    cli, env, fs,  \* the inputs
    phase,         \* how far Dispatcher::new has got
    result,        \* what Configuration::new returned
    request        \* the concern of the instantiate request, once built

vars == <<cli, env, fs, phase, result, request>>

NoResult == [kind |-> "None"]   \* Configuration::new not called yet

Phases == {"start", "configured", "connected", "tested", "managed", "sent",
           "failed", "panicked"}

Init ==
    /\ cli \in CliInputs
    /\ env \in EnvInputs
    /\ fs \in FsInputs
    /\ phase = "start"
    /\ result = NoResult
    /\ request = None

-----------------------------------------------------------------------------
(* Configuration::new(), whose error is wrapped by chain_err and returned. *)
LoadConfiguration ==
    LET r == ConfigurationNew(cli, env, fs) IN
    /\ phase = "start"
    /\ result' = r
    /\ phase' = CASE r.kind = "Ok"    -> "configured"
                  [] r.kind = "Err"   -> "failed"
                  [] r.kind = "Panic" -> "panicked"
    /\ UNCHANGED <<cli, env, fs, request>>

(* Http::new(url), web3.test_connection and TransactionManager::new: each  *)
(* succeeds or returns an error.                                           *)
Connect ==
    /\ phase = "configured"
    /\ phase' \in {"connected", "failed"}
    /\ UNCHANGED <<cli, env, fs, result, request>>

TestConnection ==
    /\ phase = "connected"
    /\ phase' \in {"tested", "failed"}
    /\ UNCHANGED <<cli, env, fs, result, request>>

CreateManager ==
    /\ phase = "tested"
    /\ phase' \in {"managed", "failed"}
    /\ UNCHANGED <<cli, env, fs, result, request>>

(* Take concerns[0] as the main concern, encode instantiate(user,          *)
(* contract, ...) and hand the request to tm.send, which may fail.         *)
Instantiate ==
    /\ phase = "managed"
    /\ request' = Some(result.val.concerns[1])
    /\ phase' \in {"sent", "failed"}
    /\ UNCHANGED <<cli, env, fs, result>>

Next ==
    \/ LoadConfiguration
    \/ Connect
    \/ TestConnection
    \/ CreateManager
    \/ Instantiate

Spec == Init /\ [][Next]_vars

-----------------------------------------------------------------------------
TypeOK ==
    /\ phase \in Phases
    /\ result.kind \in {"None", "Ok", "Err", "Panic"}
    /\ request \in {None} \cup {Some(c) : c \in Concerns}

(* A reference reading of the precedence rule, independent of the chain   *)
(* of "or"s: the settings of the sources that give one, highest priority   *)
(* first, and the file that was read.                                      *)
FirstGiven(options) ==
    IF \A i \in DOMAIN options : options[i] = None THEN None
    ELSE options[CHOOSE i \in DOMAIN options :
                    options[i] # None /\ \A j \in 1..(i - 1) : options[j] = None]
ValueOr(option, default) == IF option = None THEN default ELSE option[1]
PathRead == ValueOr(FirstGiven(<<cli.config_path, env.config_path>>), DefaultConfigPath)
File == fs[PathRead]
Highest(f) == FirstGiven(<<cli[f], env[f], File[f]>>)
MaxDelayGiven  == ValueOr(Highest("max_delay"), DefaultMaxDelay)
WarnDelayGiven == ValueOr(Highest("warn_delay"), DefaultWarnDelay)

(* A command-line or environment concern given whole, or not at all.       *)
ConcernFields(src) == <<src.concern_contract, src.concern_user, src.concern_abi>>
Whole(src)  == \A i \in 1..3 : ConcernFields(src)[i] \notin {None, Some(Malformed)}
Absent(src) == \A i \in 1..3 : ConcernFields(src)[i] = None
AsFull(src) == IF Whole(src)
               THEN Some([contract |-> src.concern_contract[1],
                          user |-> src.concern_user[1], abi |-> src.concern_abi[1]])
               ELSE None
MainGiven == FirstGiven(<<AsFull(cli), AsFull(env), File.main_concern>>)

(* Configuration::new accepts exactly the inputs with a parsable           *)
(* environment and file, a url, a working path, command-line and           *)
(* environment concerns each whole or absent, some main concern, delays    *)
(* that fit a Duration, and a maximal delay not below the warning delay    *)
(* as the user gave them (lib.rs:212, "max_delay should be larger than     *)
(* warn delay"); and what it accepts takes every setting from the command  *)
(* line, else the environment, else the file, else the default.            *)
MergeFollowsPrecedence ==
    result # NoResult =>
      LET ok == /\ env # EnvMalformed
                /\ File \notin {FileMissing, FileMalformed}
                /\ Highest("url") # None
                /\ Highest("working_path") # None
                /\ Whole(cli) \/ Absent(cli)
                /\ Whole(env) \/ Absent(env)
                /\ MainGiven # None
                /\ SecondsInRange(AsI64(MaxDelayGiven))
                /\ SecondsInRange(AsI64(WarnDelayGiven))
                /\ MaxDelayGiven >= WarnDelayGiven
      IN  /\ result.kind = "Ok" <=> ok
          /\ result.kind = "Ok" =>
               /\ result.val.url = Highest("url")[1]
               /\ result.val.testing = ValueOr(Highest("testing"), FALSE)
               /\ result.val.max_delay = AsI64(MaxDelayGiven)
               /\ result.val.warn_delay = AsI64(WarnDelayGiven)
               /\ result.val.working_path = Highest("working_path")[1]
               /\ result.val.main_concern = ToConcern(MainGiven[1])

(* The concern table: the configuration lists the file's concerns in      *)
(* order and then the main one, has an abi for exactly the concerns it    *)
(* lists, and stores for each the abi of its last entry in the file,       *)
(* except that the main concern's own abi wins over any file entry for     *)
(* the same concern (HashMap::insert overwrites).                          *)
AbiTableConsistent ==
    result.kind = "Ok" =>
      LET cfg == result.val
          fcs == File.concerns
      IN  /\ Len(cfg.concerns) = Len(fcs) + 1
          /\ \A i \in 1..Len(fcs) : cfg.concerns[i] = ToConcern(fcs[i])
          /\ Last(cfg.concerns) = cfg.main_concern
          /\ DOMAIN cfg.abis = ToSet(cfg.concerns)
          /\ cfg.abis[cfg.main_concern] = MainGiven[1].abi
          /\ \A i \in 1..Len(fcs) :
               ToConcern(fcs[i]) # cfg.main_concern =>
                 cfg.abis[ToConcern(fcs[i])]
                   = fcs[Max({j \in 1..Len(fcs) : ToConcern(fcs[j]) = ToConcern(fcs[i])})].abi

(* Dispatcher::new binds the concern it instantiates for to the name      *)
(* main_concern, and Configuration has a main_concern field: the request  *)
(* is sent for the main concern the configuration determined.             *)
InstantiatesMainConcern ==
    request # None => request[1] = result.val.main_concern

(* The configuration's own check, "max_delay should be larger than warn    *)
(* delay", read on the u64 values the user gave.                           *)
AcceptedDelaysOrdered ==
    result.kind = "Ok" =>
        MaxDelayGiven >= WarnDelayGiven

(* Configuration::new reports a bad setting as an error and does not       *)
(* abort the process.                                                      *)
LoadNeverPanics ==
    phase # "panicked"

=============================================================================
