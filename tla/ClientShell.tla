---------------------------- MODULE ClientShell ----------------------------
(***************************************************************************)
(* CascadeClientShell of src/service/python/cascade_client.py: a cmd.Cmd  *)
(* loop whose do_<command> handlers split the line, check the positional *)
(* arguments, parse `key=value` options in a while loop, call the lazily  *)
(* created ServiceClientAPI and print the result.                          *)
(*                                                                         *)
(* A word of the command line is represented by the result of             *)
(* word.split('='): <<"w">> is a plain word, <<k, v>> an option, longer   *)
(* sequences are words with several '='.  Integers are the words of       *)
(* IntText; int(x, 0) raises ValueError on any other word.  An exception  *)
(* in a handler is not caught by cmd.Cmd: it ends the shell.              *)
(***************************************************************************)
EXTENDS Integers, Sequences, FiniteSets, TLC

CONSTANTS Words,    \* plain words a user types (keys, values, names)
          Values,   \* the right-hand sides of options
          MaxArgs,  \* the longest command line considered
          None      \* Python's None, a model value

ASSUME ShellAssumption ==
    /\ MaxArgs \in Nat
    /\ Words # {} /\ Values # {}

VARIABLES
    capi,   \* self.capi is not None
    phase,  \* "ready" at the prompt, "done" after a command, "crashed", "quit"
    cmd,    \* the command of the last line
    argv,   \* arg.split() of the last line, each word split at '='
    call,   \* the ServiceClientAPI call the last command made, or NoCall
    out     \* what it printed: "result", "sent", "error", "none"

vars == <<capi, phase, cmd, argv, call, out>>

NoCall == [op |-> "none", params |-> << >>]

\* int(s, 0) for the words that are integers; ServiceClientAPI.CURRENT_VERSION.
IntText == {"0", "1"}
IntOf(s) == IF s = "0" THEN 0 ELSE 1
CURRENT_VERSION == -1

\* The command line as split by arg.split() and by split('=').
Plain(W) == {<<w>> : w \in W}
Opt(keys) == {<<k, v>> : k \in keys, v \in Values}
Lines(T) == UNION {[1 .. n -> T] : n \in 0 .. MaxArgs}
Call(op, params) == [op |-> op, params |-> params]

(* The spellings each flag option accepts (lines 226, 228, 329).  For     *)
(* `stable` the words 'false' and 'no' are compared with the bound method *)
(* `.lower`, not with `.lower()`, so only 'off' and '0' take effect.      *)
BlockingOff == {"no", "false", "off", "0"}
TriggerOn   == {"yes", "true", "on", "1"}
StableOff   == {"off", "0"}

(* Mutants of the handlers, for the mutation runs.                         *)
\* The option loop prints "Unknown argument" but goes on instead of returning.
RECURSIVE ParseNoReturn(_, _, _, _)
ParseNoReturn(a, pos, kinds, o) ==
    IF pos >= Len(a) THEN [st |-> "ok", o |-> o]
    ELSE LET t == a[pos + 1] IN
    IF Len(t) # 2 \/ t[1] \notin DOMAIN kinds
    THEN ParseNoReturn(a, pos + 1, kinds, o)
    ELSE LET k == t[1]
             v == t[2]
             kind == kinds[k]
         IN  IF kind = "int" /\ v \notin IntText
             THEN [st |-> "ValueError", o |-> o]
             ELSE ParseNoReturn(a, pos + 1, kinds,
                    CASE kind = "str"      -> [o EXCEPT ![k] = v]
                      [] kind = "int"      -> [o EXCEPT ![k] = IntOf(v)]
                      [] kind = "stable"   -> IF v \in StableOff
                                              THEN [o EXCEPT ![k] = FALSE] ELSE o
                      [] kind = "blocking" -> IF v \in BlockingOff
                                              THEN [o EXCEPT ![k] = FALSE] ELSE o
                      [] kind = "trigger"  -> IF v \in TriggerOn
                                              THEN [o EXCEPT ![k] = TRUE] ELSE o)

\* A handler without its self.check_capi() call.
BeginNoCheck(name, a) ==
    /\ phase = "ready"
    /\ UNCHANGED capi
    /\ cmd' = name /\ argv' = a

(* One iteration of the option loop `while argpos < len(args)` of every   *)
(* handler: a word that is not key=value prints "Unknown argument:" +     *)
(* args[2], which raises IndexError when there are fewer than 3 words; an *)
(* option whose key the handler knows is converted by its kind; other     *)
(* keys are ignored.  Returns the status and the option values.           *)
RECURSIVE Parse(_, _, _, _)
Parse(a, pos, kinds, o) ==
    IF pos >= Len(a) THEN [st |-> "ok", o |-> o]
    ELSE LET t == a[pos + 1] IN
    IF Len(t) # 2
    THEN [st |-> IF Len(a) >= 3 THEN "unknown" ELSE "IndexError", o |-> o]
    ELSE IF t[1] \notin DOMAIN kinds THEN Parse(a, pos + 1, kinds, o)
    ELSE LET k == t[1]
             v == t[2]
             kind == kinds[k]
         IN  IF kind = "int" /\ v \notin IntText
             THEN [st |-> "ValueError", o |-> o]
             ELSE Parse(a, pos + 1, kinds,
                    CASE kind = "str"      -> [o EXCEPT ![k] = v]
                      [] kind = "int"      -> [o EXCEPT ![k] = IntOf(v)]
                      [] kind = "stable"   -> IF v \in StableOff
                                              THEN [o EXCEPT ![k] = FALSE] ELSE o
                      [] kind = "blocking" -> IF v \in BlockingOff
                                              THEN [o EXCEPT ![k] = FALSE] ELSE o
                      [] kind = "trigger"  -> IF v \in TriggerOn
                                              THEN [o EXCEPT ![k] = TRUE] ELSE o)

(* The store's answer: a future, or None (a null result).                  *)
Results == {"future", "None"}

\* `if res: print(res.get_result()) else: print(FAIL ...)`
Reported(res) == IF res = "future" THEN "result" ELSE "error"

\* The four-way branch after capi.put (lines 232-239).
PutReported(o, res) ==
    CASE o.blocking /\ ~o.trigger /\ res = "future" -> "result"
      [] o.trigger /\ res = "None"                  -> "sent"
      [] ~o.blocking /\ res = "None"                -> "sent"
      [] OTHER                                      -> "error"

\* Every handler starts with check_capi (lines 24-26) and args = arg.split().
Begin(name, a) ==
    /\ phase = "ready"
    /\ capi' = TRUE
    /\ cmd' = name /\ argv' = a

Ends(c, o) == phase' = "done" /\ call' = c /\ out' = o
Crash == phase' = "crashed" /\ call' = NoCall /\ out' = "none"
Usage == Ends(NoCall, "error")

(* The shape shared by the handlers that parse options: a usage message   *)
(* when fewer than `need` words are given, else the option loop from      *)
(* `start`; then the call c and the report rep[res] of its result res.    *)
Options(a, need, start, kinds, defaults) ==
    IF Len(a) < need THEN [st |-> "usage", o |-> defaults]
    ELSE Parse(a, start, kinds, defaults)

OptionCommand(name, a, r, c, rep) ==
    /\ Begin(name, a)
    /\ CASE r.st = "ok"                  -> \E res \in Results : Ends(c, rep[res])
         [] r.st \in {"usage", "unknown"} -> Usage
         [] OTHER                        -> Crash

\* The lines a handler with option keys `kinds` may be given.
OptLines(kinds) == Lines(Plain(Words) \cup Opt(DOMAIN kinds))

Std == [res \in Results |-> Reported(res)]
Pos(a, i) == a[i + 1]

-----------------------------------------------------------------------------
(* The handlers.                                                           *)

ShardKinds == ("subgroup_type" :> "str") @@ ("subgroup_index" :> "int")
              @@ ("shard_index" :> "int")
ShardDefaults == [subgroup_type |-> "", subgroup_index |-> 0, shard_index |-> 0]
ReadKinds == ("stable" :> "stable") @@ ("version" :> "int") @@ ("timestamp" :> "int")
ReadDefaults == [stable |-> TRUE, version |-> CURRENT_VERSION, timestamp |-> 0]

PutKinds == ShardKinds @@ ("previous_version" :> "int")
            @@ ("previous_version_by_key" :> "int") @@ ("message_id" :> "int")
            @@ ("blocking" :> "blocking") @@ ("trigger" :> "trigger")
PutDefaults == [subgroup_type |-> "", subgroup_index |-> 0, shard_index |-> 0,
                previous_version |-> CURRENT_VERSION,
                previous_version_by_key |-> CURRENT_VERSION,
                message_id |-> 0, blocking |-> TRUE, trigger |-> FALSE]

do_put ==
    \E a \in OptLines(PutKinds) :
        \E r \in {Options(a, 2, 2, PutKinds, PutDefaults)} :
            OptionCommand("put", a, r,
                Call("put", [key |-> Pos(a, 0), value |-> Pos(a, 1),
                                subgroup_type |-> r.o.subgroup_type,
                                subgroup_index |-> r.o.subgroup_index,
                                shard_index |-> r.o.shard_index,
                                previous_version |-> r.o.previous_version,
                                previous_version_by_key |-> r.o.previous_version_by_key,
                                message_id |-> r.o.message_id,
                                blocking |-> r.o.blocking, trigger |-> r.o.trigger]),
                [res \in Results |-> PutReported(r.o, res)])

\* remove, multi_get and multi_get_size take a key and the shard options.
KeyShardCommand(name) ==
    \E a \in OptLines(ShardKinds) :
        \E r \in {Options(a, 1, 1, ShardKinds, ShardDefaults)} :
            OptionCommand(name, a, r,
                Call(name, [key |-> Pos(a, 0),
                               subgroup_type |-> r.o.subgroup_type,
                               subgroup_index |-> r.o.subgroup_index,
                               shard_index |-> r.o.shard_index]),
                Std)

do_remove == KeyShardCommand("remove")
do_multi_get == KeyShardCommand("multi_get")
do_multi_get_size == KeyShardCommand("multi_get_size")

\* get and get_size parse `stable` but do not pass it to the call.
KeyReadCommand(name) ==
    \E a \in OptLines(ShardKinds @@ ReadKinds) :
        \E r \in {Options(a, 1, 1, ShardKinds @@ ReadKinds,
                         [subgroup_type |-> "", subgroup_index |-> 0, shard_index |-> 0,
                          stable |-> TRUE, version |-> CURRENT_VERSION, timestamp |-> 0])} :
            OptionCommand(name, a, r,
                Call(name, [key |-> Pos(a, 0),
                               subgroup_type |-> r.o.subgroup_type,
                               subgroup_index |-> r.o.subgroup_index,
                               shard_index |-> r.o.shard_index,
                               version |-> r.o.version, timestamp |-> r.o.timestamp]),
                Std)

do_get == KeyReadCommand("get")
do_get_size == KeyReadCommand("get_size")

do_list_keys_in_shard ==
    LET kinds == ("subgroup_index" :> "int") @@ ("shard_index" :> "int") @@ ReadKinds IN
    \E a \in OptLines(kinds) :
        \E r \in {Options(a, 1, 1, kinds,
                         [subgroup_index |-> 0, shard_index |-> 0, stable |-> TRUE,
                          version |-> CURRENT_VERSION, timestamp |-> 0])} :
            OptionCommand("list_keys_in_shard", a, r,
                Call("list_keys_in_shard",
                        [subgroup_type |-> Pos(a, 0),
                         subgroup_index |-> r.o.subgroup_index,
                         shard_index |-> r.o.shard_index, version |-> r.o.version,
                         stable |-> r.o.stable, timestamp |-> r.o.timestamp]),
                Std)

do_multi_list_keys_in_shard ==
    LET kinds == ("subgroup_index" :> "int") @@ ("shard_index" :> "int") IN
    \E a \in OptLines(kinds) :
        \E r \in {Options(a, 1, 1, kinds, [subgroup_index |-> 0, shard_index |-> 0])} :
            OptionCommand("multi_list_keys_in_shard", a, r,
                Call("multi_list_keys_in_shard",
                        [subgroup_type |-> Pos(a, 0),
                         subgroup_index |-> r.o.subgroup_index,
                         shard_index |-> r.o.shard_index]),
                Std)

\* The call returns a list of futures; each is resolved and printed.
do_list_keys_in_object_pool ==
    \E a \in OptLines(ReadKinds) :
        \E r \in {Options(a, 1, 1, ReadKinds, ReadDefaults)} :
            OptionCommand("list_keys_in_object_pool", a, r,
                Call("list_keys_in_object_pool",
                        [object_pool_pathname |-> Pos(a, 0),
                         stable |-> r.o.stable, version |-> r.o.version,
                         timestamp |-> r.o.timestamp]),
                Std)

\* list_members: options only, all defaulting to None; which listing call is
\* made depends on which options were given (lines 75-103).
ListMembersCall(a, o) ==
    LET t == o.subgroup_type
        i == o.subgroup_index
        s == o.shard_index
        p == o.object_pool_pathname
    IN  CASE p = None /\ t = None /\ i = None -> Call("get_members", << >>)
          [] p # None /\ (t # None \/ i # None) -> NoCall
          [] p = None /\ i = None ->
                \* get_number_of_subgroups(t), then each subgroup's members
                Call("get_subgroup_members_all", [subgroup_type |-> t])
          [] p = None /\ s = None ->
                Call("get_subgroup_members", [subgroup_type |-> t, subgroup_index |-> i])
          [] p = None ->
                Call("get_shard_members", [subgroup_type |-> t, subgroup_index |-> i,
                                           shard_index |-> s])
          [] s = None ->
                Call("get_subgroup_members_by_object_pool", [object_pool_pathname |-> p])
          [] OTHER ->
                Call("get_shard_members_by_object_pool",
                     [object_pool_pathname |-> p, shard_index |-> s])

do_list_members ==
    LET kinds == ("subgroup_type" :> "str") @@ ("subgroup_index" :> "int")
                 @@ ("shard_index" :> "int") @@ ("object_pool_pathname" :> "str") IN
    \E a \in OptLines(kinds) :
        \E r \in {Options(a, 0, 0, kinds,
                            [subgroup_type |-> None, subgroup_index |-> None,
                             shard_index |-> None, object_pool_pathname |-> None])} :
        \E c \in {ListMembersCall(a, r.o)} :
            OptionCommand("list_members", a, r, c,
                [res \in Results |-> IF c = NoCall THEN "error" ELSE "result"])

\* int(args[i], 0) succeeds.
IsInt(w) == Len(w) = 1 /\ w[1] \in IntText

do_set_member_selection_policy ==
    \E a \in Lines(Plain(Words \cup {"UserSpecified"})) :
        /\ Begin("set_member_selection_policy", a)
        /\ IF Len(a) < 4 THEN Usage
           ELSE IF ~IsInt(Pos(a, 1)) \/ ~IsInt(Pos(a, 2)) THEN Crash
           ELSE IF Pos(a, 3) = <<"UserSpecified">> /\ Len(a) < 5 THEN Usage
           ELSE IF Pos(a, 3) = <<"UserSpecified">> /\ ~IsInt(Pos(a, 4)) THEN Crash
           ELSE Ends(Call("set_member_selection_policy",
                          [subgroup_type |-> Pos(a, 0),
                           subgroup_index |-> IntOf(Pos(a, 1)[1]),
                           shard_index |-> IntOf(Pos(a, 2)[1]), policy |-> Pos(a, 3),
                           node_id |-> IF Pos(a, 3) = <<"UserSpecified">>
                                       THEN IntOf(Pos(a, 4)[1]) ELSE 0]),
                     "none")

do_get_member_selection_policy ==
    \E a \in Lines(Plain(Words)) :
        /\ Begin("get_member_selection_policy", a)
        /\ IF Len(a) < 3 THEN Usage
           ELSE IF ~IsInt(Pos(a, 1)) \/ ~IsInt(Pos(a, 2)) THEN Crash
           ELSE Ends(Call("get_member_selection_policy",
                          [subgroup_type |-> Pos(a, 0),
                           subgroup_index |-> IntOf(Pos(a, 1)[1]),
                           shard_index |-> IntOf(Pos(a, 2)[1])]),
                     "result")

do_multi_list_keys_in_object_pool ==
    \E a \in Lines(Plain(Words)), res \in Results :
        /\ Begin("multi_list_keys_in_object_pool", a)
        /\ IF Len(a) < 1 THEN Usage
           ELSE Ends(Call("multi_list_keys_in_object_pool",
                          [object_pool_pathname |-> Pos(a, 0)]), Reported(res))

do_create_object_pool ==
    \E a \in Lines(Plain(Words)), res \in Results :
        /\ Begin("create_object_pool", a)
        /\ IF Len(a) < 3 THEN Usage
           ELSE IF ~IsInt(Pos(a, 2)) THEN Crash
           ELSE Ends(Call("create_object_pool",
                          [object_pool_pathname |-> Pos(a, 0),
                           subgroup_type |-> Pos(a, 1),
                           subgroup_index |-> IntOf(Pos(a, 2)[1])]), Reported(res))

\* Both print whatever the call returned, without a check.
do_list_object_pools ==
    \E a \in Lines(Plain(Words)) :
        /\ Begin("list_object_pools", a)
        /\ Ends(Call("list_object_pools", << >>), "result")

do_get_object_pool ==
    \E a \in Lines(Plain(Words)) :
        /\ Begin("get_object_pool", a)
        /\ IF Len(a) < 1 THEN Usage
           ELSE Ends(Call("get_object_pool", [object_pool_pathname |-> Pos(a, 0)]),
                     "result")

\* timestamp_logger log <tag> <msg_id> <extra> | clear | flush <filename>;
\* the integers are parsed with int(x), base 10.
do_timestamp_logger ==
    \E a \in Lines(Plain(Words \cup {"log", "clear", "flush"})) :
        /\ Begin("timestamp_logger", a)
        /\ IF Len(a) < 1 THEN Usage
           ELSE CASE Pos(a, 0) = <<"log">> ->
                       IF Len(a) < 4 THEN Usage
                       ELSE IF \E j \in 1 .. 3 : ~IsInt(Pos(a, j)) THEN Crash
                       ELSE Ends(Call("log", [tag |-> IntOf(Pos(a, 1)[1]),
                                              msg_id |-> IntOf(Pos(a, 2)[1]),
                                              extra |-> IntOf(Pos(a, 3)[1])]),
                                 "none")
                  [] Pos(a, 0) = <<"clear">> -> Ends(Call("clear", << >>), "none")
                  [] Pos(a, 0) = <<"flush">> ->
                       IF Len(a) < 2 THEN Usage
                       ELSE Ends(Call("flush", [filename |-> Pos(a, 1)]), "none")
                  [] OTHER -> Usage

\* do_quit returns True, which ends cmdloop.
do_quit ==
    /\ phase = "ready"
    /\ phase' = "quit" /\ cmd' = "quit" /\ argv' = << >>
    /\ call' = NoCall /\ out' = "none"
    /\ UNCHANGED capi

\* cmdloop prints the prompt and reads the next line.
Prompt ==
    /\ phase = "done"
    /\ phase' = "ready" /\ cmd' = "none" /\ argv' = << >>
    /\ call' = NoCall /\ out' = "none"
    /\ UNCHANGED capi

\* The process has exited, by `quit` or by an uncaught exception.
Finished == phase \in {"crashed", "quit"} /\ UNCHANGED vars

Init ==
    /\ capi = FALSE /\ phase = "ready" /\ cmd = "none" /\ argv = << >>
    /\ call = NoCall /\ out = "none"

Command ==
    \/ do_list_members \/ do_set_member_selection_policy
    \/ do_get_member_selection_policy \/ do_put \/ do_remove \/ do_get
    \/ do_multi_get \/ do_get_size \/ do_multi_get_size
    \/ do_list_keys_in_shard \/ do_multi_list_keys_in_shard
    \/ do_list_keys_in_object_pool \/ do_multi_list_keys_in_object_pool
    \/ do_create_object_pool \/ do_list_object_pools \/ do_get_object_pool
    \/ do_timestamp_logger \/ do_quit

Next == Command \/ Prompt \/ Finished

Spec == Init /\ [][Next]_vars

-----------------------------------------------------------------------------
(* Properties.  What a command line means is taken from the handlers'     *)
(* docstrings: the usage line gives the positional words, the keyword    *)
(* section the options.                                                    *)

CommandNames ==
    {"list_members", "set_member_selection_policy", "get_member_selection_policy",
     "put", "remove", "get", "multi_get", "get_size", "multi_get_size",
     "list_keys_in_shard", "multi_list_keys_in_shard", "list_keys_in_object_pool",
     "multi_list_keys_in_object_pool", "create_object_pool", "list_object_pools",
     "get_object_pool", "timestamp_logger", "quit"}

TypeOK ==
    /\ capi \in BOOLEAN
    /\ phase \in {"ready", "done", "crashed", "quit"}
    /\ cmd \in CommandNames \cup {"none"}
    /\ argv \in Seq(Seq(STRING)) /\ Len(argv) <= MaxArgs
    /\ call.op \in STRING
    /\ out \in {"result", "sent", "error", "none"}
    /\ phase = "ready" => call = NoCall
    /\ call # NoCall => capi

\* The position of the first option of each documented option command.
DocStart ==
    [c \in {"list_members", "put", "remove", "get", "multi_get", "get_size",
            "multi_get_size", "list_keys_in_shard", "multi_list_keys_in_shard",
            "list_keys_in_object_pool"} |->
        CASE c = "list_members" -> 0 [] c = "put" -> 2 [] OTHER -> 1]

\* The keyword arguments each docstring documents.
DocOptions ==
    LET shard == {"subgroup_type", "subgroup_index", "shard_index"}
        read  == {"stable", "version", "timestamp"}
    IN  [c \in DOMAIN DocStart |->
            CASE c = "list_members" -> shard \cup {"object_pool_pathname"}
              [] c = "put" -> shard \cup {"previous_version", "previous_version_by_key",
                                          "message_id", "blocking", "trigger"}
              [] c \in {"get", "get_size"} -> shard \cup read
              [] c = "list_keys_in_shard" -> {"subgroup_index", "shard_index"} \cup read
              [] c = "list_keys_in_object_pool" -> read
              [] OTHER -> shard]

KeyKind(k) ==
    CASE k \in {"subgroup_type", "object_pool_pathname"} -> "str"
      [] k \in {"stable", "blocking", "trigger"}         -> k
      [] OTHER                                          -> "int"

\* The docstrings' spellings of a false and of a true flag.
FalseWords == {"no", "false", "off", "0"}
TrueWords  == {"yes", "true", "on", "1"}

OptAt(a, s, k) == {p \in s .. Len(a) - 1 : Len(a[p + 1]) = 2 /\ a[p + 1][1] = k}
Typed(a, s, k) == OptAt(a, s, k) # {}
Said(a, s, k, W) == \E p \in OptAt(a, s, k) : a[p + 1][2] \in W

\* What the typed options mean: the last occurrence of a value option
\* counts; a flag is switched by any occurrence spelling it.
Meaning(a, s, k) ==
    LET v == a[1 + CHOOSE p \in OptAt(a, s, k) : \A q \in OptAt(a, s, k) : q <= p][2]
    IN  CASE KeyKind(k) = "str"      -> v
          [] KeyKind(k) = "int"      -> IntOf(v)
          [] KeyKind(k) = "trigger"  -> Said(a, s, k, TrueWords)
          [] OTHER                   -> ~Said(a, s, k, FalseWords)

\* The option loops of the handlers: a command is sent to the store only if
\* every word after the positional ones is a key=value option, and each
\* option the call carries has the value the user typed last (flags: as
\* switched), whatever the order and repetition of the options.
OptionsForwarded ==
    (phase = "done" /\ call # NoCall /\ cmd \in DOMAIN DocStart) =>
        LET s == DocStart[cmd] IN
        /\ \A p \in s .. Len(argv) - 1 : Len(argv[p + 1]) = 2
        /\ \A k \in DOMAIN call.params \cap DocOptions[cmd] :
              Typed(argv, s, k) => call.params[k] = Meaning(argv, s, k)

\* The docstrings of get, get_size, list_keys_in_shard and
\* list_keys_in_object_pool: `stable=false` (or no, off, 0) makes the read
\* a non-stable one.
StableHonoured ==
    (/\ phase = "done" /\ call # NoCall
     /\ cmd \in {"get", "get_size", "list_keys_in_shard", "list_keys_in_object_pool"}
     /\ Said(argv, 1, "stable", FalseWords)) =>
        "stable" \in DOMAIN call.params /\ call.params["stable"] = FALSE
=============================================================================
