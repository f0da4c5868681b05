--------------------------- MODULE MCDispatcher ---------------------------
(***************************************************************************)
(* Bounded inputs for Dispatcher.  u64 is scaled to 8 bits and a second   *)
(* to 10 milliseconds, so Duration::seconds accepts |s| <= 12 and a u64   *)
(* from 128 up reads as a negative i64, as 2^63 and up do in the program. *)
(* Two input families: one varies every scalar setting across the three   *)
(* sources and the file paths, the other the concerns.                    *)
(***************************************************************************)
EXTENDS Dispatcher

MCContracts  == {"k1"}
MCAddresses  == {"a1", "a2"}
MCAbiPaths   == {"p1", "p2"}
MCConfigPaths == {"alt.yaml"}

Opt(S) == {None} \cup {Some(x) : x \in S}


(* Scalars: each source gives a setting or not.  The file's maximal delay *)
(* 200 reads as -56 (a panic), its warning delay 255 as -1.               *)
CliScalars ==
    [config_path : Opt(MCConfigPaths), url : Opt({"cli"}), testing : Opt({FALSE}),
     max_delay : Opt({3}), warn_delay : {None},
     concern_contract : {None}, concern_user : {None}, concern_abi : {None},
     working_path : Opt({"cli"})]

EnvScalars ==
    {EnvMalformed} \cup
    [config_path : {None}, url : Opt({"env"}), testing : Opt({TRUE}),
     max_delay : {None}, warn_delay : Opt({4}),
     concern_contract : {None}, concern_user : {None}, concern_abi : {None},
     working_path : Opt({"env"})]

MainFull == [contract |-> "k1", user |-> "a1", abi |-> "p1"]

FileScalars ==
    [status : {"ok"}, url : Opt({"file"}), testing : Opt({TRUE}),
     max_delay : Opt({200}), warn_delay : Opt({255}),
     main_concern : Opt({MainFull}), concerns : {<< >>}, working_path : Opt({"file"})]

AltFile ==
    [status |-> "ok", url |-> Some("alt"), testing |-> None, max_delay |-> None,
     warn_delay |-> None, main_concern |-> Some(MainFull), concerns |-> << >>,
     working_path |-> Some("alt")]

FsScalars ==
    {("config.yaml" :> d) @@ ("alt.yaml" :> a) :
        d \in {FileMissing, FileMalformed} \cup FileScalars, a \in {FileMissing, AltFile}}

(* Concerns: whole, partial or malformed on the command line and in the   *)
(* environment; a main concern or none and up to two entries, duplicates  *)
(* included, in the file.                                                  *)
CliConcerns ==
    [config_path : {None}, url : {None}, testing : {None}, max_delay : {None},
     warn_delay : {None}, concern_contract : Opt({"k1", Malformed}),
     concern_user : Opt({"a2", Malformed}), concern_abi : Opt({"p2"}),
     working_path : {None}]

EnvConcerns ==
    {EnvMalformed} \cup
    [config_path : {None}, url : {None}, testing : {None}, max_delay : {None},
     warn_delay : {None}, concern_contract : Opt({"k1"}),
     concern_user : Opt({"a1", Malformed}), concern_abi : Opt({"p2"}),
     working_path : {None}]

FileConcerns ==
    [status : {"ok"}, url : {Some("file")}, testing : {None}, max_delay : {None},
     warn_delay : {None}, main_concern : Opt(FullConcerns),
     concerns : {<< >>} \cup {<<fc>> : fc \in FullConcerns}
                \cup {<<fc, gc>> : fc, gc \in FullConcerns},
     working_path : {Some("file")}]

FsConcerns ==
    {("config.yaml" :> d) @@ ("alt.yaml" :> FileMissing) : d \in FileConcerns}

=============================================================================
