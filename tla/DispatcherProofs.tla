------------------------- MODULE DispatcherProofs -------------------------
(***************************************************************************)
(* Configuration::new follows the precedence rules for every input the     *)
(* command line, the environment and the files can give, at any u64 width. *)
(*                                                                         *)
(* The argument compares two readings of the same rule.  The code chains   *)
(* Option::or from the highest source down (Or); the property names the   *)
(* first source that gives a setting (FirstGiven).  The two agree as soon  *)
(* as every source but the last hands over an Option (FirstOfTwo,          *)
(* FirstOfThree), and validate_concern accepts exactly the concerns given  *)
(* whole or not at all (ValidateWhole).  The rest is the order of the      *)
(* early returns in ConfigurationNew and CombineConfig.                    *)
(***************************************************************************)
EXTENDS Dispatcher, TLAPS

(* Of two settings, the higher one if it is given, else the lower one.     *)
LEMMA FirstOfTwo ==
    ASSUME NEW a, NEW b
    PROVE  FirstGiven(<<a, b>>) = Or(a, b)
<1>1. CASE a # None
  <2>1. \A i \in 1..2 : (<<a, b>>[i] # None /\ \A j \in 1..(i - 1) : <<a, b>>[j] = None)
                        <=> i = 1
    BY <1>1
  <2>2. (CHOOSE i \in 1..2 : <<a, b>>[i] # None /\ \A j \in 1..(i - 1) : <<a, b>>[j] = None) = 1
    BY <2>1
  <2>3. QED
    BY <1>1, <2>2 DEF FirstGiven, Or
<1>2. CASE a = None /\ b # None
  <2>1. \A i \in 1..2 : (<<a, b>>[i] # None /\ \A j \in 1..(i - 1) : <<a, b>>[j] = None)
                        <=> i = 2
    BY <1>2
  <2>2. (CHOOSE i \in 1..2 : <<a, b>>[i] # None /\ \A j \in 1..(i - 1) : <<a, b>>[j] = None) = 2
    BY <2>1
  <2>3. QED
    BY <1>2, <2>2 DEF FirstGiven, Or
<1>3. CASE a = None /\ b = None
  BY <1>3 DEF FirstGiven, Or
<1>4. QED
  BY <1>1, <1>2, <1>3

(* Of three settings, the highest one given, else the lowest one.          *)
LEMMA FirstOfThree ==
    ASSUME NEW a, NEW b, NEW c
    PROVE  FirstGiven(<<a, b, c>>) = Or(Or(a, b), c)
<1> DEFINE s == <<a, b, c>>
           First(i) == s[i] # None /\ \A j \in 1..(i - 1) : s[j] = None
<1>1. CASE a # None
  <2>1. \A i \in 1..3 : First(i) <=> i = 1
    BY <1>1
  <2>2. (CHOOSE i \in 1..3 : First(i)) = 1
    BY <2>1
  <2>3. QED
    BY <1>1, <2>2 DEF FirstGiven, Or
<1>2. CASE a = None /\ b # None
  <2>1. \A i \in 1..3 : First(i) <=> i = 2
    BY <1>2
  <2>2. (CHOOSE i \in 1..3 : First(i)) = 2
    BY <2>1
  <2>3. QED
    BY <1>2, <2>2 DEF FirstGiven, Or
<1>3. CASE a = None /\ b = None /\ c # None
  <2>1. \A i \in 1..3 : First(i) <=> i = 3
    BY <1>3
  <2>2. (CHOOSE i \in 1..3 : First(i)) = 3
    BY <2>1
  <2>3. QED
    BY <1>3, <2>2 DEF FirstGiven, Or
<1>4. CASE a = None /\ b = None /\ c = None
  BY <1>4 DEF FirstGiven, Or
<1>5. QED
  BY <1>1, <1>2, <1>3, <1>4

(* validate_concern refuses a concern given in part, or with an address    *)
(* that does not parse, and hands back the concern given whole.            *)
LEMMA ValidateWhole ==
    ASSUME NEW src,
           IsOption(src.concern_contract), IsOption(src.concern_user),
           IsOption(src.concern_abi),
           src.concern_abi = None \/ src.concern_abi[1] # Malformed
    PROVE  LET v == ValidateConcern(src.concern_contract, src.concern_user, src.concern_abi)
           IN  /\ v.kind = "Err" <=> ~(Whole(src) \/ Absent(src))
               /\ v.kind # "Err" => v.kind = "Ok" /\ v.val = AsFull(src)
BY DEF ValidateConcern, Whole, Absent, AsFull, ConcernFields, IsOption, Ok, Err, Some, None

(* The result a successful call returns.                                   *)
LEMMA OkFields == \A v : Ok(v).kind = "Ok" /\ Ok(v).val = v
BY DEF Ok

(* The kind of a failed call.                                             *)
LEMMA FailKinds ==
    ASSUME NEW x
    PROVE  /\ \A w : x = Err(w) => x.kind = "Err"
           /\ x = Panic => x.kind = "Panic"
BY DEF Err, Panic

(* The fields of a successful call's value are those of the value.       *)
LEMMA ValFields ==
    ASSUME NEW x, NEW c, x.val = c
    PROVE  /\ x.val.url = c.url /\ x.val.testing = c.testing
           /\ x.val.max_delay = c.max_delay /\ x.val.warn_delay = c.warn_delay
           /\ x.val.working_path = c.working_path /\ x.val.main_concern = c.main_concern
OBVIOUS

(* Of two integers, one is below the other or not below it.              *)
LEMMA IntOrder ==
    ASSUME NEW a \in Int, NEW b \in Int
    PROVE  a < b <=> ~(a >= b)
OBVIOUS

(* "as i64" leaves a u64 below 2^(Width-1) as it is.                     *)
LEMMA SmallAsI64 ==
    ASSUME NEW x \in 0..(2^(Width - 1) - 1)
    PROVE  AsI64(x) = x
BY WidthAssumption DEF AsI64

(* The inputs whose delays stay below 2^(Width-1), where "as i64" does not *)
(* wrap: every delay a source gives, and the defaults.                     *)
DelaysFitI64 ==
    LET Small == 0..(2^(Width - 1) - 1)
        Fits(o) == o = None \/ o[1] \in Small
    IN  /\ {DefaultMaxDelay, DefaultWarnDelay} \subseteq Small
        /\ \A src \in CliInputs \cup (EnvInputs \ {EnvMalformed}) :
              Fits(src.max_delay) /\ Fits(src.warn_delay)
        /\ \A fsi \in FsInputs : \A p \in DOMAIN fsi :
              fsi[p] \notin {FileMissing, FileMalformed} =>
                Fits(fsi[p].max_delay) /\ Fits(fsi[p].warn_delay)

(* What Configuration::new returns follows the precedence rules, for      *)
(* inputs whose delays do not wrap.                                        *)
LEMMA LoadFollowsPrecedence ==
    ASSUME DelaysFitI64,
           cli \in CliInputs, env \in EnvInputs, fs \in FsInputs,
           result = ConfigurationNew(cli, env, fs)
    PROVE  MergeFollowsPrecedence
<1>1. CASE env = EnvMalformed
  BY <1>1 DEF ConfigurationNew, MergeFollowsPrecedence, Err, NoResult
<1>2. CASE env # EnvMalformed
  <2>1. /\ \A f \in OptionFields : IsOption(cli[f]) /\ IsOption(env[f])
        /\ \A f \in {"max_delay", "warn_delay"} :
              /\ cli[f] = None \/ cli[f][1] \in U64
              /\ env[f] = None \/ env[f][1] \in U64
        /\ cli.concern_abi = None \/ cli.concern_abi[1] # Malformed
        /\ env.concern_abi = None \/ env.concern_abi[1] # Malformed
        /\ cli.config_path = None \/ cli.config_path[1] \in ConfigPaths
        /\ env.config_path = None \/ env.config_path[1] \in ConfigPaths
        /\ DOMAIN fs = ConfigPaths \cup {DefaultConfigPath}
    BY <1>2, InputsAssumption
  <2> DEFINE path == UnwrapOr(Or(cli.config_path, env.config_path), DefaultConfigPath)
             file == fs[path]
  <2>2. PathRead = path /\ File = file
    BY FirstOfTwo DEF PathRead, File, ValueOr, UnwrapOr
  <2>3. CASE file \in {FileMissing, FileMalformed}
    BY <1>2, <2>2, <2>3 DEF ConfigurationNew, MergeFollowsPrecedence, Err, NoResult,
                            FileMissing, FileMalformed
  <2>4. CASE file \notin {FileMissing, FileMalformed}
    <3>1. path \in DOMAIN fs
      BY <2>1 DEF UnwrapOr, Or
    <3>2. \A f \in {"max_delay", "warn_delay"} : file[f] = None \/ file[f][1] \in U64
      BY <2>4, <3>1, InputsAssumption
    <3>3. result = LET r == CombineConfig(cli, env, file)
                   IN  IF r.kind = "Ok" /\ r.val.max_delay < r.val.warn_delay
                       THEN Err("DelayOrder") ELSE r
      BY <1>2, <2>4 DEF ConfigurationNew
    <3>4. \A f \in {"url", "testing", "max_delay", "warn_delay", "working_path"} :
             Highest(f) = Or(Or(cli[f], env[f]), file[f])
      BY <2>2, FirstOfThree DEF Highest
    <3>5. MainGiven = Or(Or(AsFull(cli), AsFull(env)), file.main_concern)
      BY <2>2, FirstOfThree DEF MainGiven
    <3> DEFINE urlOpt       == Or(Or(cli.url, env.url), file.url)
               testingVal   == UnwrapOr(Or(Or(cli.testing, env.testing), file.testing), FALSE)
               maxDelay  == UnwrapOr(Or(Or(cli.max_delay, env.max_delay), file.max_delay),
                                     DefaultMaxDelay)
               warnDelay == UnwrapOr(Or(Or(cli.warn_delay, env.warn_delay), file.warn_delay),
                                     DefaultWarnDelay)
               workPath  == Or(Or(cli.working_path, env.working_path), file.working_path)
               cliMain   == ValidateConcern(cli.concern_contract, cli.concern_user,
                                            cli.concern_abi)
               envMain   == ValidateConcern(env.concern_contract, env.concern_user,
                                            env.concern_abi)
               main      == Or(Or(cliMain.val, envMain.val), file.main_concern)
               inRange   == SecondsInRange(AsI64(maxDelay)) /\ SecondsInRange(AsI64(warnDelay))
    <3>6. CombineConfig(cli, env, file) =
            IF urlOpt = None THEN Err("NoUrl")
            ELSE IF workPath = None THEN Err("NoWorkingPath")
            ELSE IF cliMain.kind = "Err" THEN cliMain
            ELSE IF envMain.kind = "Err" THEN envMain
            ELSE IF main = None THEN Err("NoMainConcern")
            ELSE IF ~inRange THEN Panic
            ELSE Ok([url |-> urlOpt[1], testing |-> testingVal,
                     max_delay |-> AsI64(maxDelay), warn_delay |-> AsI64(warnDelay),
                     main_concern |-> ToConcern(main[1]),
                     concerns |-> ConcernTable(file.concerns, main[1]).concerns,
                     working_path |-> workPath[1],
                     abis |-> ConcernTable(file.concerns, main[1]).abis])
      BY DEF CombineConfig
    <3>7. /\ Highest("url") = urlOpt /\ Highest("working_path") = workPath
          /\ ValueOr(Highest("testing"), FALSE) = testingVal
          /\ MaxDelayGiven = maxDelay /\ WarnDelayGiven = warnDelay
      BY <3>4 DEF MaxDelayGiven, WarnDelayGiven, ValueOr, UnwrapOr
    <3>8. /\ cliMain.kind = "Err" <=> ~(Whole(cli) \/ Absent(cli))
          /\ cliMain.kind # "Err" => cliMain.val = AsFull(cli)
          /\ envMain.kind = "Err" <=> ~(Whole(env) \/ Absent(env))
          /\ envMain.kind # "Err" => envMain.val = AsFull(env)
      BY <2>1, ValidateWhole DEF OptionFields
    <3>9. maxDelay \in Int /\ warnDelay \in Int
      <4>1. /\ cli.max_delay = None \/ cli.max_delay[1] \in U64
            /\ env.max_delay = None \/ env.max_delay[1] \in U64
            /\ file.max_delay = None \/ file.max_delay[1] \in U64
            /\ cli.warn_delay = None \/ cli.warn_delay[1] \in U64
            /\ env.warn_delay = None \/ env.warn_delay[1] \in U64
            /\ file.warn_delay = None \/ file.warn_delay[1] \in U64
            /\ DefaultMaxDelay \in U64 /\ DefaultWarnDelay \in U64
        BY <2>1, <3>2, WidthAssumption DEF U64
      <4>2. U64 \subseteq Int
        BY DEF U64
      <4>3. QED
        BY <4>1, <4>2 DEF UnwrapOr, Or
    <3> DEFINE valid == /\ urlOpt # None /\ workPath # None
                        /\ cliMain.kind # "Err" /\ envMain.kind # "Err"
                        /\ main # None /\ inRange
               r     == CombineConfig(cli, env, file)
               cfg   == [url |-> urlOpt[1], testing |-> testingVal,
                         max_delay |-> AsI64(maxDelay), warn_delay |-> AsI64(warnDelay),
                         main_concern |-> ToConcern(main[1]),
                         concerns |-> ConcernTable(file.concerns, main[1]).concerns,
                         working_path |-> workPath[1],
                         abis |-> ConcernTable(file.concerns, main[1]).abis]
    <3>10. /\ cfg.url = urlOpt[1] /\ cfg.testing = testingVal
           /\ cfg.max_delay = AsI64(maxDelay) /\ cfg.warn_delay = AsI64(warnDelay)
           /\ cfg.working_path = workPath[1] /\ cfg.main_concern = ToConcern(main[1])
      OBVIOUS
    <3>11. valid => r = Ok(cfg)
      BY <3>6
    <3>12. ~valid => r.kind \in {"Err", "Panic"}
      <4>1. CASE urlOpt = None
        <5>1. r = Err("NoUrl")
          BY <3>6, <4>1
        <5>2. QED
          BY <5>1, FailKinds
      <4>2. CASE urlOpt # None /\ workPath = None
        <5>1. r = Err("NoWorkingPath")
          BY <3>6, <4>2
        <5>2. QED
          BY <5>1, FailKinds
      <4>3. CASE urlOpt # None /\ workPath # None /\ cliMain.kind = "Err"
        BY <3>6, <4>3
      <4>4. CASE urlOpt # None /\ workPath # None /\ cliMain.kind # "Err" /\ envMain.kind = "Err"
        BY <3>6, <4>4
      <4>5. CASE urlOpt # None /\ workPath # None /\ cliMain.kind # "Err" /\ envMain.kind # "Err"
                 /\ main = None
        <5>1. r = Err("NoMainConcern")
          BY <3>6, <4>5
        <5>2. QED
          BY <5>1, FailKinds
      <4>6. CASE urlOpt # None /\ workPath # None /\ cliMain.kind # "Err" /\ envMain.kind # "Err"
                 /\ main # None /\ ~inRange
        <5>1. r = Panic
          BY <3>6, <4>6
        <5>2. QED
          BY <5>1, FailKinds
      <4>7. QED
        BY <4>1, <4>2, <4>3, <4>4, <4>5, <4>6
    <3>13. AsI64(maxDelay) \in Int /\ AsI64(warnDelay) \in Int
      BY <3>9, WidthAssumption DEF AsI64
    <3>20. AsI64(maxDelay) = maxDelay /\ AsI64(warnDelay) = warnDelay
      <4> DEFINE Small == 0..(2^(Width - 1) - 1)
      <4>1. /\ cli.max_delay = None \/ cli.max_delay[1] \in Small
            /\ env.max_delay = None \/ env.max_delay[1] \in Small
            /\ file.max_delay = None \/ file.max_delay[1] \in Small
            /\ cli.warn_delay = None \/ cli.warn_delay[1] \in Small
            /\ env.warn_delay = None \/ env.warn_delay[1] \in Small
            /\ file.warn_delay = None \/ file.warn_delay[1] \in Small
            /\ DefaultMaxDelay \in Small /\ DefaultWarnDelay \in Small
        BY <1>2, <2>4, <3>1 DEF DelaysFitI64
      <4>2. maxDelay \in Small /\ warnDelay \in Small
        BY <4>1 DEF UnwrapOr, Or
      <4>3. QED
        BY <4>2, SmallAsI64
    <3>14. /\ result.kind \in {"Ok", "Err", "Panic"}
           /\ result.kind = "Ok" <=> valid /\ AsI64(maxDelay) >= AsI64(warnDelay)
           /\ result.kind = "Ok" => result.val = cfg
      <4>1. result = IF r.kind = "Ok" /\ r.val.max_delay < r.val.warn_delay
                     THEN Err("DelayOrder") ELSE r
        BY <3>3
      <4>2. CASE valid
        <5>1. r = Ok(cfg)
          BY <3>11, <4>2
        <5>2. r.kind = "Ok" /\ r.val = cfg
          BY <5>1, OkFields
        <5>3. r.val.max_delay = AsI64(maxDelay) /\ r.val.warn_delay = AsI64(warnDelay)
          BY <5>2, <3>10, ValFields
        <5>4. CASE AsI64(maxDelay) < AsI64(warnDelay)
          <6>1. result = Err("DelayOrder")
            BY <4>1, <5>2, <5>3, <5>4
          <6>2. result.kind = "Err"
            BY <6>1, FailKinds
          <6>3. ~(AsI64(maxDelay) >= AsI64(warnDelay))
            BY <5>4, <3>13, IntOrder
          <6>4. QED
            BY <6>2, <6>3
        <5>5. CASE ~(AsI64(maxDelay) < AsI64(warnDelay))
          <6>1. result = r
            BY <4>1, <5>2, <5>3, <5>5
          <6>2. result.kind = "Ok" /\ result.val = cfg
            BY <6>1, <5>2
          <6>3. AsI64(maxDelay) >= AsI64(warnDelay)
            BY <5>5, <3>13, IntOrder
          <6>4. QED
            BY <6>2, <6>3, <4>2
        <5>6. QED
          BY <5>4, <5>5
      <4>3. CASE ~valid
        BY <3>12, <4>1, <4>3
      <4>4. QED
        BY <4>2, <4>3
    <3>15. cliMain.kind # "Err" /\ envMain.kind # "Err" => main = MainGiven
      BY <3>5, <3>8
    <3>16. LET ok == /\ env # EnvMalformed
                     /\ File \notin {FileMissing, FileMalformed}
                     /\ Highest("url") # None
                     /\ Highest("working_path") # None
                     /\ Whole(cli) \/ Absent(cli)
                     /\ Whole(env) \/ Absent(env)
                     /\ MainGiven # None
                     /\ SecondsInRange(AsI64(MaxDelayGiven))
                     /\ SecondsInRange(AsI64(WarnDelayGiven))
                     /\ MaxDelayGiven >= WarnDelayGiven
           IN  ok <=> valid /\ AsI64(maxDelay) >= AsI64(warnDelay)
      <4>1. /\ env # EnvMalformed /\ File \notin {FileMissing, FileMalformed}
            /\ Highest("url") = urlOpt /\ Highest("working_path") = workPath
            /\ AsI64(MaxDelayGiven) = AsI64(maxDelay) /\ AsI64(WarnDelayGiven) = AsI64(warnDelay)
            /\ MaxDelayGiven = AsI64(maxDelay) /\ WarnDelayGiven = AsI64(warnDelay)
        BY <1>2, <2>2, <2>4, <3>7, <3>20
      <4>2. CASE cliMain.kind = "Err" \/ envMain.kind = "Err"
        <5>1. ~valid
          BY <4>2
        <5>2. ~(Whole(cli) \/ Absent(cli)) \/ ~(Whole(env) \/ Absent(env))
          BY <4>2, <3>8
        <5>3. QED
          BY <5>1, <5>2, Zenon
      <4>3. CASE cliMain.kind # "Err" /\ envMain.kind # "Err"
        <5>1. main = MainGiven
          BY <4>3, <3>15
        <5>2. /\ Whole(cli) \/ Absent(cli)
              /\ Whole(env) \/ Absent(env)
          BY <4>3, <3>8
        <5>3. QED
          BY <4>1, <4>3, <5>1, <5>2, Zenon
      <4>4. QED
        BY <4>2, <4>3
    <3>17. ASSUME result.kind = "Ok"
           PROVE  /\ result.val.url = Highest("url")[1]
                  /\ result.val.testing = ValueOr(Highest("testing"), FALSE)
                  /\ result.val.max_delay = AsI64(MaxDelayGiven)
                  /\ result.val.warn_delay = AsI64(WarnDelayGiven)
                  /\ result.val.working_path = Highest("working_path")[1]
                  /\ result.val.main_concern = ToConcern(MainGiven[1])
      <4>1. result.val = cfg /\ valid
        BY <3>14, <3>17
      <4>2. main = MainGiven
        BY <4>1, <3>15
      <4>3. QED
        BY <4>1, <4>2, <3>7, <3>10, ValFields
    <3>19. QED
      BY <3>14, <3>16, <3>17 DEF MergeFollowsPrecedence
  <2>5. QED
    BY <2>3, <2>4
<1>3. QED
  BY <1>1, <1>2

(* The state of Dispatcher::new: inputs it can be given, and nothing or    *)
(* what Configuration::new returned for them.                              *)
Loaded ==
    /\ cli \in CliInputs /\ env \in EnvInputs /\ fs \in FsInputs
    /\ result = NoResult \/ result = ConfigurationNew(cli, env, fs)

(* Every step keeps the inputs and sets result to what Configuration::new *)
(* returns for them, or leaves it.                                        *)
LEMMA LoadedStep == Loaded /\ [Next]_vars => Loaded'
<1> SUFFICES ASSUME Loaded, [Next]_vars PROVE Loaded'
  OBVIOUS
<1>1. CASE LoadConfiguration
  BY <1>1 DEF Loaded, LoadConfiguration
<1>2. CASE Connect \/ TestConnection \/ CreateManager \/ Instantiate
  BY <1>2 DEF Loaded, Connect, TestConnection, CreateManager, Instantiate
<1>3. CASE UNCHANGED vars
  BY <1>3 DEF Loaded, vars
<1>4. QED
  BY <1>1, <1>2, <1>3 DEF Next

(* For every u64 width and every set of command-line, environment and     *)
(* file inputs whose delays stay below 2^(Width-1), whatever                *)
(* Configuration::new returns to Dispatcher::new takes every setting from *)
(* the command line, else the environment, else the config file read from *)
(* the highest given path, and succeeds exactly when the url, the working *)
(* path and a main concern are found, the concerns are whole or absent,   *)
(* the delays fit a Duration and the maximal delay is not below the       *)
(* warning delay.  Without the hypothesis the claim is false: a delay of  *)
(* 2^63 or more wraps (the run config_delay_wrap).                         *)
THEOREM PrecedenceHolds ==
    ASSUME DelaysFitI64
    PROVE  Spec => []MergeFollowsPrecedence
<1>1. Init => Loaded
  BY DEF Init, Loaded
<1>2. Loaded /\ [Next]_vars => Loaded'
  BY LoadedStep
<1>3. Loaded => MergeFollowsPrecedence
  <2> SUFFICES ASSUME Loaded PROVE MergeFollowsPrecedence
    OBVIOUS
  <2>1. CASE result = NoResult
    BY <2>1 DEF MergeFollowsPrecedence
  <2>2. CASE result = ConfigurationNew(cli, env, fs)
    BY <2>2, LoadFollowsPrecedence DEF Loaded
  <2>3. QED
    BY <2>1, <2>2 DEF Loaded
<1>4. QED
  BY <1>1, <1>2, <1>3, PTL DEF Spec

=============================================================================
