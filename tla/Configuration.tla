--------------------------- MODULE Configuration ---------------------------
(***************************************************************************)
(* Configuration::new of configuration/src/lib.rs as a pure operator of    *)
(* the three places a setting can come from: the command line, the         *)
(* CARTESI_ environment and the YAML file the first two point at.          *)
(*                                                                         *)
(* Data abstraction.  An Option is a sequence: None is << >> and Some(v)  *)
(* is <<v>>.  A string setting is drawn from a small set; an address       *)
(* string either parses to one of the constant addresses or is Malformed   *)
(* (the "0x" prefix is trimmed first).  PathBuf::parse cannot fail, so an  *)
(* abi path is any member of AbiPaths.  A u64 keeps its width as the       *)
(* constant Width: the cast "as i64" wraps modulo 2^Width, and             *)
(* time::Duration::seconds panics beyond (2^(Width-1) - 1) \div MsPerSec,  *)
(* the largest number of seconds whose milliseconds fit in an i64.  The    *)
(* program has Width = 64 and MsPerSec = 1000.                             *)
(***************************************************************************)
EXTENDS Integers, Sequences, SequencesExt

CONSTANTS
    Contracts,        \* contract addresses
    Addresses,        \* user addresses
    AbiPaths,         \* abi file paths
    ConfigPaths,      \* config file paths a user may name besides the default
    Width,            \* bit width of u64 / i64
    MsPerSec,         \* milliseconds in a second
    DefaultMaxDelay,  \* DEFAULT_MAX_DELAY
    DefaultWarnDelay  \* DEFAULT_WARN_DELAY

ASSUME WidthAssumption ==
    /\ Width \in Nat \ {0, 1}
    /\ MsPerSec \in Nat \ {0}
    /\ {DefaultMaxDelay, DefaultWarnDelay} \subseteq 0..(2^Width - 1)

None    == << >>   \* Option::None
Some(v) == <<v>>    \* Option::Some

Malformed == "malformed"  \* an address string that does not parse

(* What envy, or File::open and serde_yaml, make of an input that fails.   *)
EnvMalformed  == [status |-> "malformed"]
FileMissing   == [status |-> "missing"]
FileMalformed == [status |-> "malformed"]

DefaultConfigPath == "config.yaml"

U64 == 0..(2^Width - 1)

(* "x as i64": the two's complement reading of the same bits.              *)
AsI64(x) == IF x >= 2^(Width - 1) THEN x - 2^Width ELSE x

(* time::Duration::seconds(s) is within [MIN, MAX] (no panic).             *)
MaxDurationSecs == (2^(Width - 1) - 1) \div MsPerSec
SecondsInRange(s) == -MaxDurationSecs <= s /\ s <= MaxDurationSecs

Concerns     == [contract : Contracts, user : Addresses]
FullConcerns == [contract : Contracts, user : Addresses, abi : AbiPaths]

ToConcern(full) == [contract |-> full.contract, user |-> full.user]

(* Option::or: the first of two options that is Some.                      *)
Or(a, b) == IF a = None THEN b ELSE a

(* Option::unwrap_or.                                                      *)
UnwrapOr(a, default) == IF a = None THEN default ELSE a[1]

Ok(v)      == [kind |-> "Ok", val |-> v]
Err(why)   == [kind |-> "Err", why |-> why]
Panic      == [kind |-> "Panic"]

-----------------------------------------------------------------------------
(* Plausible slips, used as mutants: a concern validated as soon as its   *)
(* contract is given (a user or abi alone passes as "no concern"), an     *)
(* insertion that keeps the value already stored, and a load that skips  *)
(* the delay check.                                                        *)
ValidateConcernContractOnly(contract, user, abi) ==
    IF contract # None
    THEN IF contract[1] = Malformed THEN Err("BadContract")
         ELSE IF user = None THEN Err("NoUser")
         ELSE IF user[1] = Malformed THEN Err("BadUser")
         ELSE IF abi = None THEN Err("NoAbi")
         ELSE Ok(Some([contract |-> contract[1], user |-> user[1], abi |-> abi[1]]))
    ELSE Ok(None)

InsertKeepFirst(map, key, v) == map @@ (key :> v)

(* validate_concern: all three options or none; each missing one, or an    *)
(* address that does not parse, is an InvalidConfig / parse error, tried   *)
(* in the order contract, user, abi.                                       *)
ValidateConcern(contract, user, abi) ==
    IF contract # None \/ user # None \/ abi # None
    THEN IF contract = None THEN Err("NoContract")
         ELSE IF contract[1] = Malformed THEN Err("BadContract")
         ELSE IF user = None THEN Err("NoUser")
         ELSE IF user[1] = Malformed THEN Err("BadUser")
         ELSE IF abi = None THEN Err("NoAbi")
         ELSE Ok(Some([contract |-> contract[1], user |-> user[1], abi |-> abi[1]]))
    ELSE Ok(None)

(* HashMap::insert: the new value replaces the one stored under the key.   *)
Insert(map, key, v) == (key :> v) @@ map

(* The loop over the file's concerns and the insertion of the main         *)
(* concern after it: every concern is pushed, and its abi stored under it. *)
ConcernTable(fileConcerns, main) ==
    LET abis0 == FoldLeft(LAMBDA m, fc : Insert(m, ToConcern(fc), fc.abi),
                          <<>>, fileConcerns)
    IN  [concerns |-> Append([i \in DOMAIN fileConcerns |-> ToConcern(fileConcerns[i])],
                             ToConcern(main)),
         abis     |-> Insert(abis0, ToConcern(main), main.abi)]

(* combine_config: every setting from the command line, else the           *)
(* environment, else the file (else its default); the url, the working     *)
(* path and a main concern are required.  The delays are converted to      *)
(* Durations last, when the Configuration is built.                        *)
CombineConfig(cli, env, file) ==
    LET url        == Or(Or(cli.url, env.url), file.url)
        testing    == UnwrapOr(Or(Or(cli.testing, env.testing), file.testing), FALSE)
        maxDelay   == UnwrapOr(Or(Or(cli.max_delay, env.max_delay), file.max_delay),
                               DefaultMaxDelay)
        warnDelay  == UnwrapOr(Or(Or(cli.warn_delay, env.warn_delay), file.warn_delay),
                               DefaultWarnDelay)
        workPath   == Or(Or(cli.working_path, env.working_path), file.working_path)
        cliMain    == ValidateConcern(cli.concern_contract, cli.concern_user, cli.concern_abi)
        envMain    == ValidateConcern(env.concern_contract, env.concern_user, env.concern_abi)
        main       == Or(Or(cliMain.val, envMain.val), file.main_concern)
        table      == ConcernTable(file.concerns, main[1])
    IN  IF url = None THEN Err("NoUrl")
        ELSE IF workPath = None THEN Err("NoWorkingPath")
        ELSE IF cliMain.kind = "Err" THEN cliMain
        ELSE IF envMain.kind = "Err" THEN envMain
        ELSE IF main = None THEN Err("NoMainConcern")
        ELSE IF ~SecondsInRange(AsI64(maxDelay)) \/ ~SecondsInRange(AsI64(warnDelay))
        THEN Panic
        ELSE Ok([url |-> url[1], testing |-> testing,
                 max_delay |-> AsI64(maxDelay), warn_delay |-> AsI64(warnDelay),
                 main_concern |-> ToConcern(main[1]), concerns |-> table.concerns,
                 working_path |-> workPath[1], abis |-> table.abis])

(* Configuration::new: parse the environment, find and parse the file,     *)
(* combine, then reject a maximal delay below the warning delay.  fs maps  *)
(* every path to the file's contents, FileMissing or FileMalformed.        *)
ConfigurationNew(cli, env, fs) ==
    IF env = EnvMalformed THEN Err("EnvParse")
    ELSE LET path == UnwrapOr(Or(cli.config_path, env.config_path), DefaultConfigPath)
         IN  IF fs[path] = FileMissing THEN Err("FileOpen")
             ELSE IF fs[path] = FileMalformed THEN Err("FileParse")
             ELSE LET r == CombineConfig(cli, env, fs[path])
                  IN  IF r.kind = "Ok" /\ r.val.max_delay < r.val.warn_delay
                      THEN Err("DelayOrder")
                      ELSE r

=============================================================================
