--------------------------- MODULE MinishellProofs ---------------------------
(***************************************************************************)
(* Proofs about minishell for any keys, values, segments and length of a   *)
(* line: what export and unset do, and what a command reads and writes.    *)
(***************************************************************************)
EXTENDS Minishell, SequenceTheorems, TLAPS

-----------------------------------------------------------------------------
(* The variables *)

Unique(list) == \A m, n \in DOMAIN list : m # n => list[m].key # list[n].key

\* Where keys are unique there is one position to find.
LEMMA PositionIs ==
    ASSUME NEW list \in Seq(Variable), Unique(list), NEW n \in DOMAIN list
    PROVE  /\ Position(list, list[n].key) = n
           /\ get_value(list, list[n].key) = list[n].value
<1> DEFINE P(p) == /\ list[p].key = list[n].key
                   /\ \A m \in 1 .. p - 1 : list[m].key # list[n].key
<1>1. P(n)
  <2>1. DOMAIN list = 1 .. Len(list) /\ Len(list) \in Nat
    BY LenProperties
  <2>2. ASSUME NEW m \in 1 .. n - 1, list[m].key = list[n].key PROVE FALSE
    <3>1. m \in DOMAIN list /\ m # n
      BY <2>1
    <3> QED BY <2>2, <3>1 DEF Unique
  <2> QED BY <2>2
<1>2. \A p \in DOMAIN list : P(p) => p = n
  BY DEF Unique
<1>3. Position(list, list[n].key) = CHOOSE p \in DOMAIN list : P(p)
  BY DEF Position
<1>4. Position(list, list[n].key) = n
  <2> HIDE DEF P
  <2> QED BY <1>1, <1>2, <1>3
<1> QED BY <1>4 DEF get_value, Defined

LEMMA PositionType ==
    ASSUME NEW list \in Seq(Variable), Unique(list), NEW key, Defined(list, key)
    PROVE  /\ Position(list, key) \in DOMAIN list
           /\ list[Position(list, key)].key = key
<1>1. PICK n \in DOMAIN list : list[n].key = key
  BY DEF Defined
<1> QED BY <1>1, PositionIs

\* Two lists give a variable the same value.
Same(list, other, key) ==
    /\ (Defined(other, key) <=> Defined(list, key))
    /\ get_value(other, key) = get_value(list, key)

LEMMA SameIs ==
    ASSUME NEW list \in Seq(Variable), Unique(list),
           NEW other \in Seq(Variable), Unique(other), NEW key,
           \A n \in DOMAIN list : list[n].key = key =>
               \E m \in DOMAIN other : other[m] = list[n],
           \A m \in DOMAIN other : other[m].key = key =>
               \E n \in DOMAIN list : list[n] = other[m]
    PROVE  Same(list, other, key)
<1>1. CASE Defined(list, key)
  <2>1. PICK n \in DOMAIN list : list[n].key = key
    BY <1>1 DEF Defined
  <2>2. PICK m \in DOMAIN other : other[m] = list[n]
    BY <2>1
  <2>3. get_value(list, key) = list[n].value /\ get_value(other, key) = other[m].value
    BY <2>1, <2>2, PositionIs
  <2> QED BY <1>1, <2>1, <2>2, <2>3 DEF Same, Defined
<1>2. CASE ~Defined(list, key)
  <2>1. ~Defined(other, key)
    BY <1>2 DEF Defined
  <2> QED BY <1>2, <2>1 DEF Same, get_value
<1> QED BY <1>1, <1>2

\* A list that gives one variable the value, and the others what list does.
Sets(list, other, key, value) ==
    /\ other \in Seq(Variable) /\ Unique(other)
    /\ Defined(other, key) /\ get_value(other, key) = value
    /\ \A k1 \in Key : k1 # key => Same(list, other, k1)

LEMMA AddSets ==
    ASSUME NEW list \in Seq(Variable), Unique(list), NEW key \in Key,
           NEW value \in Value \cup {Null}, ~Defined(list, key)
    PROVE  Sets(list, add_env_var(list, key, value), key, value)
<1> DEFINE new == [key |-> key, value |-> value]
           other == add_env_var(list, key, value)
<1>1. /\ other \in Seq(Variable)
      /\ DOMAIN list = 1 .. Len(list) /\ Len(list) \in Nat
      /\ DOMAIN other = 1 .. Len(list) + 1
      /\ \A n \in DOMAIN list : other[n] = list[n]
      /\ other[Len(list) + 1] = new
  BY AppendProperties, LenProperties DEF add_env_var, Variable
<1> HIDE DEF other
<1>2. Unique(other)
  <2>1. \A n \in DOMAIN list : list[n].key # key
    BY DEF Defined
  <2>2. \A n \in DOMAIN other : n \in DOMAIN list \/ n = Len(list) + 1
    BY <1>1
  <2> QED BY <1>1, <2>1, <2>2 DEF Unique
<1>3. Len(list) + 1 \in DOMAIN other
  BY <1>1
<1>4. Defined(other, key) /\ get_value(other, key) = value
  BY <1>1, <1>2, <1>3, PositionIs DEF Defined
<1>5. ASSUME NEW k1 \in Key, k1 # key PROVE Same(list, other, k1)
  <2>1. \A n \in DOMAIN list : n \in DOMAIN other
    BY <1>1
  <2>2. \A n \in DOMAIN other : n \in DOMAIN list \/ n = Len(list) + 1
    BY <1>1
  <2> QED BY <1>1, <1>2, <1>5, <2>1, <2>2, SameIs
<1>6. Sets(list, other, key, value)
  BY <1>1, <1>2, <1>4, <1>5 DEF Sets
<1> QED BY <1>6 DEF other

LEMMA ReplaceSets ==
    ASSUME NEW list \in Seq(Variable), Unique(list), NEW key \in Key,
           NEW value \in Value \cup {Null}, Defined(list, key)
    PROVE  Sets(list, [list EXCEPT ![Position(list, key)].value = value], key, value)
<1> DEFINE p == Position(list, key)
           other == [list EXCEPT ![p].value = value]
<1>1. /\ DOMAIN list = 1 .. Len(list) /\ Len(list) \in Nat
      /\ \A n \in DOMAIN list : list[n] \in Variable
      /\ p \in DOMAIN list /\ list[p].key = key
  BY LenProperties, ElementOfSeq, PositionType
<1>2. /\ DOMAIN other = DOMAIN list
      /\ \A n \in DOMAIN list : n # p => other[n] = list[n]
      /\ other[p] = [list[p] EXCEPT !.value = value]
  BY <1>1
<1>3. other[p].key = key /\ other[p].value = value /\ other[p] \in Variable
  BY <1>1, <1>2 DEF Variable
<1> HIDE DEF p, other
<1>4. other \in Seq(Variable)
  <2>1. \A n \in DOMAIN list : other[n] \in Variable
    BY <1>1, <1>2, <1>3
  <2> QED BY <1>1, <1>2, <2>1 DEF other
<1>5. Unique(other)
  <2>1. \A n \in DOMAIN list : other[n].key = list[n].key
    BY <1>1, <1>2, <1>3
  <2> QED BY <1>2, <2>1 DEF Unique
<1>6. Defined(other, key) /\ get_value(other, key) = value
  BY <1>1, <1>2, <1>3, <1>4, <1>5, PositionIs DEF Defined
<1>7. ASSUME NEW k1 \in Key, k1 # key PROVE Same(list, other, k1)
  BY <1>1, <1>2, <1>3, <1>4, <1>5, <1>7, SameIs
<1>8. Sets(list, other, key, value)
  BY <1>4, <1>5, <1>6, <1>7 DEF Sets
<1> QED BY <1>8 DEF other, p

LEMMA ExportSets ==
    ASSUME NEW list \in Seq(Variable), Unique(list), NEW arg \in Argument,
           ~Refused(list, arg)
    PROVE  \E value \in Value \cup {Null} :
              /\ Sets(list, mini_export(list, arg), arg.key, value)
              /\ arg.equals => value = arg.value
<1>1. arg.key \in Key /\ arg.value \in Value \cup {Null} /\ arg.key # BadKey
  BY DEF Argument, Refused
<1>2. CASE Defined(list, arg.key)
  BY <1>1, <1>2, ReplaceSets DEF mini_export, valid_export, normal_case
<1>3. CASE ~Defined(list, arg.key) /\ arg.equals
  BY <1>1, <1>3, AddSets DEF mini_export, valid_export, normal_case
<1>4. CASE ~Defined(list, arg.key) /\ ~arg.equals
  BY <1>1, <1>4, AddSets DEF mini_export, valid_export, special_cases, Refused
<1> QED BY <1>2, <1>3, <1>4

LEMMA RefusedIsLeft ==
    ASSUME NEW list, NEW arg, Refused(list, arg)
    PROVE  mini_export(list, arg) = list
  BY DEF Refused, mini_export, valid_export, special_cases

LEMMA SetDirWrites ==
    ASSUME NEW list \in Seq(Variable), Unique(list), NEW value \in [Directory -> Value]
    PROVE  LET other == set_dir(list, value)
           IN  /\ other \in Seq(Variable) /\ Unique(other)
               /\ \A key : Defined(other, key) <=> Defined(list, key)
               /\ \A key : key \notin Directory => Same(list, other, key)
<1> DEFINE other == set_dir(list, value)
<1>1. /\ DOMAIN list = 1 .. Len(list) /\ Len(list) \in Nat
      /\ \A n \in DOMAIN list : list[n] \in Variable
  BY LenProperties, ElementOfSeq
<1>2. DOMAIN other = DOMAIN list
  BY DEF set_dir
<1>3. ASSUME NEW n \in DOMAIN list
      PROVE  /\ other[n] \in Variable /\ other[n].key = list[n].key
             /\ list[n].key \notin Directory => other[n] = list[n]
  <2>1. \/ other[n] = list[n]
        \/ /\ list[n].key \in Directory
           /\ other[n] = [list[n] EXCEPT !.value = value[list[n].key]]
    BY DEF set_dir
  <2> QED BY <1>1, <2>1 DEF Variable
<1> HIDE DEF other
<1>4. other \in Seq(Variable)
  <2>1. other = [n \in 1 .. Len(list) |-> other[n]]
    BY <1>1, <1>2 DEF other, set_dir
  <2> QED BY <1>1, <1>3, <2>1
<1>5. Unique(other)
  BY <1>2, <1>3 DEF Unique
<1>6. \A key : Defined(other, key) <=> Defined(list, key)
  BY <1>2, <1>3 DEF Defined
<1>7. ASSUME NEW key, key \notin Directory PROVE Same(list, other, key)
  BY <1>2, <1>3, <1>4, <1>5, <1>7, SameIs
<1>8. /\ other \in Seq(Variable) /\ Unique(other)
      /\ \A key : Defined(other, key) <=> Defined(list, key)
      /\ \A key : key \notin Directory => Same(list, other, key)
  BY <1>4, <1>5, <1>6, <1>7
<1> QED BY <1>8 DEF other

LEMMA UnsetRemoves ==
    ASSUME NEW list \in Seq(Variable), Unique(list), NEW key
    PROVE  LET other == mini_unset(list, key)
           IN  /\ other \in Seq(Variable) /\ Unique(other)
               /\ ~Defined(other, key)
               /\ \A k1 \in Key : k1 # key => Same(list, other, k1)
<1>1. CASE ~Defined(list, key)
  BY <1>1 DEF mini_unset, Same
<1>2. CASE Defined(list, key)
  <2> DEFINE p == Position(list, key)
             before == SubSeq(list, 1, p - 1)
             after == SubSeq(list, p + 1, Len(list))
             other == before \o after
  <2>1. /\ DOMAIN list = 1 .. Len(list) /\ Len(list) \in Nat
        /\ p \in 1 .. Len(list) /\ list[p].key = key
    BY <1>2, LenProperties, PositionType
  <2> HIDE DEF p
  <2>2. \A n \in 1 .. Len(list) : list[n] \in Variable
    BY ElementOfSeq
  <2>3. /\ before \in Seq(Variable) /\ Len(before) = p - 1
        /\ \A n \in 1 .. p - 1 : before[n] = list[n]
    <3>1. /\ SubSeq(list, 1, p - 1) \in Seq(Variable)
          /\ Len(SubSeq(list, 1, p - 1)) = IF 1 <= p - 1 THEN (p - 1) - 1 + 1 ELSE 0
          /\ \A n \in 1 .. (p - 1) - 1 + 1 : SubSeq(list, 1, p - 1)[n] = list[1 + n - 1]
      <4>1. 1 \in Int /\ p - 1 \in Int /\ \A n \in 1 .. p - 1 : list[n] \in Variable
        BY <2>1, <2>2
      <4> QED BY <4>1, SubSeqProperties
    <3> QED BY <2>1, <3>1
  <2>4. /\ after \in Seq(Variable) /\ Len(after) = Len(list) - p
        /\ \A n \in 1 .. Len(list) - p : after[n] = list[p + n]
    <3>1. /\ SubSeq(list, p + 1, Len(list)) \in Seq(Variable)
          /\ Len(SubSeq(list, p + 1, Len(list)))
                = IF p + 1 <= Len(list) THEN Len(list) - (p + 1) + 1 ELSE 0
          /\ \A n \in 1 .. Len(list) - (p + 1) + 1 :
                SubSeq(list, p + 1, Len(list))[n] = list[p + 1 + n - 1]
      <4>1. p + 1 \in Int /\ Len(list) \in Int
            /\ \A n \in p + 1 .. Len(list) : list[n] \in Variable
        BY <2>1, <2>2
      <4> QED BY <4>1, SubSeqProperties
    <3> QED BY <2>1, <3>1
  <2> HIDE DEF before, after
  <2>5. /\ other \in Seq(Variable) /\ Len(other) = Len(list) - 1
        /\ DOMAIN other = 1 .. Len(list) - 1
        /\ \A n \in 1 .. Len(list) - 1 :
              other[n] = IF n < p THEN list[n] ELSE list[n + 1]
    <3>1. /\ other \in Seq(Variable) /\ Len(other) = Len(before) + Len(after)
          /\ \A n \in 1 .. Len(before) + Len(after) :
                other[n] = IF n <= Len(before) THEN before[n]
                                               ELSE after[n - Len(before)]
      BY <2>3, <2>4, ConcatProperties
    <3>2. Len(other) = Len(list) - 1
      BY <2>1, <2>3, <2>4, <3>1
    <3>3. DOMAIN other = 1 .. Len(list) - 1
      BY <3>1, <3>2, LenProperties
    <3>4. ASSUME NEW n \in 1 .. Len(list) - 1
          PROVE  other[n] = IF n < p THEN list[n] ELSE list[n + 1]
      <4>1. CASE n < p
        <5>1. n \in 1 .. p - 1 /\ n <= Len(before)
              /\ n \in 1 .. Len(before) + Len(after)
          BY <2>1, <2>3, <2>4, <4>1
        <5> QED BY <2>3, <3>1, <4>1, <5>1
      <4>2. CASE n >= p
        <5>1. n - (p - 1) \in 1 .. Len(list) - p /\ p + (n - (p - 1)) = n + 1
              /\ ~ (n <= Len(before)) /\ n \in 1 .. Len(before) + Len(after)
              /\ n - Len(before) = n - (p - 1)
          BY <2>1, <2>3, <2>4, <4>2
        <5>2. other[n] = after[n - (p - 1)]
          BY <3>1, <5>1
        <5>3. after[n - (p - 1)] = list[n + 1]
          BY <2>4, <5>1
        <5> QED BY <2>1, <4>2, <5>2, <5>3
      <4>3. n < p \/ n >= p
        BY <2>1
      <4> QED BY <4>1, <4>2, <4>3
    <3> QED BY <3>1, <3>2, <3>3, <3>4
  <2> HIDE DEF other
  <2>6. ASSUME NEW n \in DOMAIN other
        PROVE  \E m \in DOMAIN list : m # p /\ other[n] = list[m]
    <3>1. CASE n < p
      BY <2>1, <2>5, <3>1
    <3>2. CASE ~ (n < p)
      <4>1. n + 1 \in DOMAIN list /\ n + 1 # p
        BY <2>1, <2>5, <3>2
      <4> QED BY <2>5, <3>2, <4>1
    <3> QED BY <3>1, <3>2
  <2>7. \A m \in DOMAIN list : m # p => \E n \in DOMAIN other : other[n] = list[m]
    <3> SUFFICES ASSUME NEW m \in DOMAIN list, m # p
                 PROVE  \E n \in DOMAIN other : other[n] = list[m]
      OBVIOUS
    <3>1. CASE m < p
      BY <2>1, <2>5, <3>1
    <3>2. CASE m > p
      <4>1. m - 1 \in 1 .. Len(list) - 1 /\ ~ (m - 1 < p) /\ (m - 1) + 1 = m
        BY <2>1, <3>2
      <4> QED BY <2>5, <4>1
    <3> QED BY <2>1, <3>1, <3>2
  <2>8. Unique(other)
    <3> SUFFICES ASSUME NEW m \in DOMAIN other, NEW n \in DOMAIN other, m # n
                 PROVE  other[m].key # other[n].key
      BY DEF Unique
    <3> DEFINE Old(x) == IF x < p THEN x ELSE x + 1
    <3>1. /\ other[m] = list[Old(m)] /\ other[n] = list[Old(n)]
          /\ Old(m) \in DOMAIN list /\ Old(n) \in DOMAIN list /\ Old(m) # Old(n)
      BY <2>1, <2>5
    <3> QED BY <3>1 DEF Unique
  <2>9. ~Defined(other, key)
    BY <2>1, <2>6 DEF Defined, Unique
  <2>10. ASSUME NEW k1 \in Key, k1 # key PROVE Same(list, other, k1)
    BY <2>1, <2>5, <2>6, <2>7, <2>8, <2>10, SameIs
  <2>11. mini_unset(list, key) = other
    BY <1>2 DEF mini_unset, other, before, after, p
  <2> QED BY <2>5, <2>8, <2>9, <2>10, <2>11
<1> QED BY <1>1, <1>2
-----------------------------------------------------------------------------
(* Types *)

\* What the bounds and the numbers of pipes rest on.
Bounds ==
    /\ pc = "loop" => k < MaxSegments
    /\ pc \notin {"prompt", "loop", "exited"} => k >= 1
    /\ pc \notin {"prompt", "loop", "minishell_end", "exited", "crashed"} =>
          (k = MaxSegments => segment.sep = "end")
    /\ pip = 1 => pipes.latest >= 1
    /\ pc = "prompt" => k = 0
    /\ cat_nb <= k

ChildType(c) ==
    c = NoChild \/ c \in [cmd : Command, in : Streams, out : Streams, blocked : BOOLEAN]
PipesType(p) == p \in [latest : 0 .. MaxSegments, open : BOOLEAN]
PreviousType(p) ==
    p \in [sep : Separator \cup {"none"}, ran : BOOLEAN, err : {0, 1, 127},
           piped : BOOLEAN, stray : BOOLEAN]

Flags ==
    /\ pc \in {"prompt", "loop", "phase_enter", "phase_check", "fork", "waitpid",
              "wait", "minishell_end", "exited", "crashed"}
    /\ k \in 0 .. MaxSegments
    /\ pip \in {0, 1} /\ or \in {0, 1}
    /\ err \in {0, 1, 127}
    /\ cat \in 0 .. 2 /\ cat_nb \in 0 .. MaxSegments
    /\ status \in {0, 1, 127}

Booleans == redirected \in BOOLEAN /\ exits \in BOOLEAN

Leads ==
    /\ fd0 \in Streams /\ fd1 \in Streams
    /\ input \in Streams \cup {Closed} /\ output \in Streams \cup {Closed}

Records ==
    /\ segment \in Segment /\ PipesType(pipes) /\ ChildType(child)
    /\ PreviousType(previous)

TInv == env \in Seq(Variable) /\ Flags /\ Booleans /\ Leads /\ Records /\ Bounds

LEMMA TypesAre == TInv => TypeOK
  BY
    DEF TInv, Flags, Booleans, Leads, Records, ChildType, PipesType, PreviousType,
        TypeOK

LEMMA SegmentType ==
    /\ NoSegment \in Segment
    /\ \A s \in Segments : s \in Segment
    /\ \A s \in Segment : /\ s.cmd \in Command /\ s.arg \in Argument
                          /\ s.in \in BOOLEAN /\ s.out \in BOOLEAN
                          /\ s.here \in BOOLEAN /\ s.sep \in Separator
<1>1. NoArgument \in Argument
  BY KeyAssumption DEF NoArgument, Argument
<1> QED BY <1>1, SegmentsAssumption
    DEF NoSegment, Segment, Command, Separator

\* Streams, by what leads to them.
LEMMA StreamTypes ==
    /\ {Terminal, DevNull, HereFile} \subseteq Streams
    /\ \A n \in 1 .. MaxSegments : File(n) \in Streams /\ Pipe(n) \in Streams
    /\ \A old \in Streams, new \in Streams \cup {Closed} : Redirect(old, new) \in Streams
  BY DEF Streams, Redirect

LEMMA InitTypes == Init => TInv
<1> SUFFICES ASSUME Init PROVE TInv
  OBVIOUS
<1>1. env \in Seq(Variable)
  <2>1. PICK n \in 0 .. 1 : env \in [1 .. n -> Variable]
    BY DEF Init
  <2>2. n \in Nat
    OBVIOUS
  <2> QED BY <2>1, <2>2
<1>2. segment \in Segment
  BY SegmentType DEF Init
<1>3. PreviousType(previous)
  BY DEF Init, NoPrevious, PreviousType
<1>4. fd0 \in Streams /\ fd1 \in Streams /\ input \in Streams \cup {Closed} /\ output \in Streams \cup {Closed}
  BY StreamTypes DEF Init
<1>5. PipesType(pipes) /\ ChildType(child)
  BY MaxSegmentsAssumption DEF Init, PipesType, ChildType
<1>6. Flags
  BY MaxSegmentsAssumption DEF Init, Flags
<1>7. Bounds
  BY MaxSegmentsAssumption DEF Init, Bounds
<1>8. Booleans
  BY DEF Init, Booleans
<1> QED BY <1>1, <1>2, <1>3, <1>4, <1>5, <1>6, <1>7, <1>8 DEF TInv, Leads, Records

LEMMA BuiltinTypes ==
    ASSUME TInv, KeysUnique, exec_builtin
    PROVE  /\ env' \in Seq(Variable) /\ Unique(env')
           /\ err' \in {0, 1, 127}
<1>1. env \in Seq(Variable) /\ Unique(env) /\ err \in {0, 1, 127} /\ segment.arg \in Argument
  BY SegmentType DEF TInv, Flags, Records, KeysUnique, Unique
<1>2. CASE segment.cmd = "export"
  <2>1. /\ env' = mini_export(env, segment.arg)
        /\ err' = export_err(env, err, segment.arg)
    BY <1>2 DEF exec_builtin
  <2>2. CASE Refused(env, segment.arg)
    BY <1>1, <2>1, <2>2, RefusedIsLeft DEF export_err
  <2>3. CASE ~Refused(env, segment.arg)
    BY <1>1, <2>1, <2>3, ExportSets DEF Sets, export_err
  <2> QED BY <2>2, <2>3
<1>3. CASE segment.cmd = "unset"
  <2>1. env' = mini_unset(env, segment.arg.key) /\ err' = err
    BY <1>3 DEF exec_builtin
  <2> QED BY <1>1, <2>1, UnsetRemoves
<1>4. CASE segment.cmd = "cd"
  <2>1. \/ err' = 1 /\ env' = env
        \/ /\ err' = err
           /\ \E value \in [Directory -> Value] : env' = set_dir(env, value)
    BY <1>4 DEF exec_builtin
  <2> QED BY <1>1, <2>1, SetDirWrites
<1>5. CASE segment.cmd \notin {"export", "unset", "cd"}
  BY <1>1, <1>5 DEF exec_builtin
<1> QED BY <1>2, <1>3, <1>4, <1>5

LEMMA TypesStep ==
    ASSUME TInv, KeysUnique, [Next]_vars
    PROVE  TInv'
<1> USE MaxSegmentsAssumption
<1>0. Booleans'
  <2>1. \A s \in Segments : s.in \in BOOLEAN /\ s.out \in BOOLEAN
    BY SegmentType
  <2>2. redirected \in BOOLEAN /\ exits \in BOOLEAN
    BY DEF TInv, Booleans
  <2>3. redirected' \in BOOLEAN
    BY <2>1, <2>2

      DEF Next, Shell, vars, EndOfInput, Line, NextSegment, HereDocument,
          HereDocumentEnds,
        Skip, Enter, phase_check, Exit, ReadFreed, fork, phase_end, minishell_end,
        ChildBlocks, ChildEnds, Signal
  <2>4. exits' \in BOOLEAN
    BY <2>2

      DEF Next, Shell, vars, EndOfInput, Line, NextSegment, HereDocument,
          HereDocumentEnds,
        Skip, Enter, phase_check, Exit, ReadFreed, fork, phase_end, minishell_end,
        ChildBlocks, ChildEnds, Signal
  <2> QED BY <2>3, <2>4 DEF Booleans
<1>1. CASE EndOfInput \/ Line
  BY <1>1, <1>0 DEF EndOfInput, Line, descriptors, TInv, Flags, Leads, Records, Bounds
<1>2. CASE NextSegment
  <2>1. PICK s \in Segments :
          /\ k = MaxSegments - 1 => s.sep = "end"
          /\ segment' = s
          /\ k' = k + 1
          /\ IF SkipsCat(s)
             THEN /\ cat' = 1
                  /\ cat_nb' = cat_nb + 1
                  /\ err' = IF exits THEN err ELSE 0
                  /\ redirected' = FALSE
                  /\ previous' = [NoPrevious EXCEPT !.sep = "|", !.stray = previous.stray]
                  /\ UNCHANGED <<pc, descriptors>>
             ELSE /\ cat' = IF cat # 1 /\ k > 0 THEN cat ELSE 2
                  /\ pc' = "phase_enter"
                  /\ redirected' = (s.in \/ s.out)
                  /\ \E file \in IF s.in THEN {File(k + 1), Closed} ELSE {input} :
                        /\ input' = file
                        /\ fd0' = IF s.in THEN Redirect(fd0, file) ELSE fd0
                  /\ \E file \in IF s.out THEN {File(k + 1), Closed} ELSE {output} :
                        /\ output' = file
                        /\ fd1' = IF s.out THEN Redirect(fd1, file) ELSE fd1
                  /\ err' = IF (s.in /\ input' = Closed) \/ (s.out /\ output' = Closed)
                            THEN 1
                            ELSE IF exits THEN err ELSE 0
                  /\ UNCHANGED <<cat_nb, previous>>
    BY <1>2 DEF NextSegment
  <2>2. pc = "loop" /\ UNCHANGED <<env, pip, pipes, or, exits, child, status>>
    BY <1>2 DEF NextSegment
  <2>3. k + 1 \in 1 .. MaxSegments /\ k' = k + 1
    BY <2>1, <2>2 DEF TInv, Flags, Bounds
  <2>4. segment' \in Segment /\ s.in \in BOOLEAN /\ s.out \in BOOLEAN
    BY <2>1, SegmentType
  <2>5. CASE SkipsCat(s)
    <3>1. PreviousType(previous')
      <4>1. previous' = [sep |-> "|", ran |-> FALSE, err |-> 0, piped |-> FALSE,
                         stray |-> previous.stray]
        BY <2>1, <2>5 DEF NoPrevious
      <4>2. previous.stray \in BOOLEAN
        BY DEF TInv, Records, PreviousType
      <4> QED BY <4>1, <4>2 DEF PreviousType, Separator
    <3>2. k + 1 < MaxSegments
      BY <2>1, <2>3, <2>5 DEF SkipsCat, TInv, Flags
    <3>3. (Leads /\ Records /\ env \in Seq(Variable))'
      BY <2>1, <2>2, <2>4, <2>5, <3>1 DEF descriptors, TInv, Leads, Records
    <3>4. Flags' /\ Bounds'
      <4>1. /\ cat' = 1 /\ cat_nb' = cat_nb + 1 /\ redirected' = FALSE
            /\ err' \in {err, 0} /\ pc' = pc
        BY <2>1, <2>5
      <4> QED BY <2>2, <2>3, <3>2, <4>1 DEF TInv, Flags, Bounds
    <3> QED BY <1>0, <3>3, <3>4 DEF TInv
  <2>6. CASE ~SkipsCat(s)
    <3>1. /\ fd0' \in Streams /\ fd1' \in Streams
          /\ input' \in Streams \cup {Closed} /\ output' \in Streams \cup {Closed}
          /\ err' \in {0, 1, 127}
      BY <2>1, <2>3, <2>4, <2>6, StreamTypes DEF TInv, Flags, Leads
    <3>2. (Leads /\ Records /\ env \in Seq(Variable))'
      BY <2>1, <2>2, <2>4, <2>6, <3>1 DEF TInv, Leads, Records
    <3>3. Flags' /\ Bounds'
      BY <2>1, <2>2, <2>3, <2>4, <2>6, <3>1 DEF TInv, Flags, Bounds
    <3> QED BY <1>0, <3>2, <3>3 DEF TInv
  <2> QED BY <2>5, <2>6
<1>3. CASE HereDocument
  <2>1. PICK s \in Segments :
          /\ s.here
          /\ k = MaxSegments - 1 => s.sep = "end"
          /\ segment' = s
          /\ k' = k + 1
          /\ err' = IF exits THEN err ELSE 0
          /\ or' = IF s.sep = "||" /\ err' = 0 THEN 1 ELSE or
          /\ pip' = IF s.sep = "|" THEN 1 ELSE pip
          /\ input' = HereFile
          /\ fd1' = Redirect(fd1, output)
          /\ child' = [cmd |-> s.cmd, in |-> HereFile, blocked |-> FALSE,
                       out |-> IF pip' = 1 THEN Pipe(k + 1) ELSE fd1']
          /\ IF pip' = 1
             THEN fd0' = Pipe(k + 1) /\ pipes' = [latest |-> k + 1, open |-> FALSE]
             ELSE fd0' = HereFile /\ UNCHANGED pipes
    BY <1>3 DEF HereDocument
  <2>2. /\ pc = "loop" /\ pc' = "wait" /\ redirected' = FALSE
        /\ UNCHANGED <<env, output, cat, cat_nb, exits, status, previous>>
    BY <1>3 DEF HereDocument
  <2>3. k + 1 \in 1 .. MaxSegments /\ k' = k + 1
    BY <2>1, <2>2 DEF TInv, Flags, Bounds
  <2>4. segment' \in Segment /\ s.cmd \in Command
    BY <2>1, SegmentType
  <2>5. /\ fd0' \in Streams /\ fd1' \in Streams /\ input' \in Streams
        /\ pip' \in {0, 1} /\ err' \in {0, 1, 127} /\ or' \in {0, 1}
    BY <2>1, <2>3, StreamTypes DEF TInv, Flags, Leads
  <2>6. ChildType(child')
    <3>1. IF pip' = 1 THEN Pipe(k + 1) \in Streams ELSE fd1' \in Streams
      BY <2>3, <2>5, StreamTypes
    <3> QED BY <2>1, <2>4, <3>1, StreamTypes DEF ChildType
  <2>7. PipesType(pipes')
    <3>1. CASE pip' = 1
      <4>1. k + 1 \in 0 .. MaxSegments
        BY <2>3
      <4>2. pipes' = [latest |-> k + 1, open |-> FALSE]
        BY <2>1, <3>1
      <4> QED BY <4>1, <4>2 DEF PipesType
    <3>2. CASE pip' # 1
      BY <2>1, <3>2 DEF TInv, Records
    <3> QED BY <3>1, <3>2
  <2>8. (Flags /\ Booleans /\ Leads /\ Records /\ env \in Seq(Variable))'
    <3>1. Flags'
      BY <2>2, <2>3, <2>5 DEF TInv, Flags
    <3>2. Leads' /\ Records'
      BY <2>2, <2>4, <2>5, <2>6, <2>7 DEF TInv, Leads, Records
    <3> QED BY <1>0, <2>2, <3>1, <3>2 DEF TInv
  <2>9. Bounds'
    BY <2>1, <2>2, <2>3, <2>5 DEF TInv, Flags, Bounds
  <2> QED BY <2>8, <2>9 DEF TInv
<1>4. CASE HereDocumentEnds
  <2>1. PreviousType(previous')
    BY <1>4, SegmentType DEF HereDocumentEnds, TInv, Records, PreviousType, NoPrevious
  <2> QED BY <1>4, <2>1, <1>0
    DEF HereDocumentEnds, descriptors, TInv, Flags, Leads, Records, Bounds
<1>5. CASE Skip
  <2>1. PreviousType(previous')
    BY <1>5, SegmentType DEF Skip, TInv, Flags, Records, PreviousType
  <2> QED BY <1>5, <2>1, <1>0
    DEF Skip, AfterSegment, descriptors, TInv, Flags, Leads, Records, Bounds
<1>6. CASE Enter \/ Exit \/ ReadFreed
  BY <1>6, <1>0
    DEF Enter, Exit, ReadFreed, descriptors, TInv, Flags, Leads, Records, Bounds
<1>7. CASE phase_check
  <2>1. env' \in Seq(Variable) /\ err' \in {0, 1, 127}
    BY <1>7, BuiltinTypes DEF phase_check
  <2>2. fd1' \in Streams
    BY <1>7, StreamTypes DEF phase_check, TInv, Leads
  <2>3. /\ PipesType(pipes')
        /\ pip' \in {0, 1} /\ pip' = 1 => pipes'.latest >= 1
    <3>1. /\ k \in 1 .. MaxSegments /\ PipesType(pipes)
          /\ pip \in {0, 1} /\ pip = 1 => pipes.latest >= 1
      BY <1>7 DEF phase_check, TInv, Flags, Records, Bounds
    <3>2. CASE segment.sep = "|"
      <4>1. pipes' = [latest |-> k, open |-> TRUE] /\ pip' = 1
        BY <1>7, <3>2 DEF phase_check
      <4>2. k \in 0 .. MaxSegments /\ k >= 1
        BY <3>1
      <4> QED BY <4>1, <4>2 DEF PipesType
    <3>3. CASE segment.sep # "|"
      BY <1>7, <3>1, <3>3 DEF phase_check
    <3> QED BY <3>2, <3>3
  <2> QED BY <1>7, <2>1, <2>2, <2>3, <1>0
    DEF phase_check, TInv, Flags, Leads, Records, Bounds
<1>8. CASE fork
  <2>1. pip = 1 => Pipe(pipes.latest) \in Streams
    BY StreamTypes DEF TInv, Records, PipesType, Bounds
  <2>2. pipes.open /\ pip = 1 => Pipe(pipes.latest) \in Streams
    BY <2>1
  <2>3. ChildType(child')
    BY <1>8, <2>2, SegmentType DEF fork, TInv, Leads, Records, ChildType
  <2>4. /\ fd0' \in Streams /\ PipesType(pipes')
        /\ pipes'.latest = pipes.latest
    BY <1>8, <2>1 DEF fork, TInv, Leads, Records, PipesType
  <2> QED BY <1>8, <2>3, <2>4, <1>0 DEF fork, TInv, Flags, Leads, Records, Bounds
<1>9. CASE ChildBlocks \/ ChildEnds \/ Signal
  <2>1. ChildType(child')
    BY <1>9 DEF ChildBlocks, ChildEnds, Signal, TInv, Records, ChildType
  <2>2. status' \in {0, 1, 127}
    BY <1>9 DEF ChildBlocks, ChildEnds, Signal, TInv, Flags
  <2> QED BY <1>9, <2>1, <2>2, <1>0
      DEF ChildBlocks, ChildEnds, Signal, descriptors, TInv, Flags, Leads, Records,
          Bounds
<1>10. CASE phase_end
  <2>1. fd0' \in Streams /\ fd1' \in Streams /\ err' \in {0, 1, 127} /\ or' \in {0, 1}
    BY <1>10, StreamTypes DEF phase_end, TInv, Flags, Leads
  <2>2. PreviousType(previous')
    BY <1>10, <2>1, SegmentType DEF phase_end, TInv, Records, PreviousType
  <2> QED BY <1>10, <2>1, <2>2, <1>0
      DEF phase_end, AfterSegment, TInv, Flags, Leads, Records, Bounds
<1>11. CASE minishell_end
  <2>1. /\ fd0' \in Streams /\ fd1' \in Streams
        /\ input' \in Streams \cup {Closed} /\ output' \in Streams \cup {Closed}
    BY <1>11, StreamTypes DEF minishell_end
  <2>2. segment' \in Segment
    BY <1>11, SegmentType DEF minishell_end
  <2>3. PreviousType(previous')
    BY <1>11 DEF minishell_end, NoPrevious, PreviousType
  <2>4. PipesType(pipes')
    BY <1>11 DEF minishell_end, PipesType
  <2>5. Flags' /\ Bounds'
    BY <1>11 DEF minishell_end, TInv, Flags, Bounds
  <2>6. Records' /\ env' = env
    BY <1>11, <2>2, <2>3, <2>4 DEF minishell_end, TInv, Records
  <2> QED BY <1>0, <2>1, <2>5, <2>6 DEF TInv, Leads
<1>12. CASE UNCHANGED vars
  BY <1>12, <1>0 DEF vars, descriptors, TInv, Flags, Leads, Records, Bounds
<1> QED BY <1>1, <1>2, <1>3, <1>4, <1>5, <1>6, <1>7, <1>8, <1>9, <1>10, <1>11, <1>12
    DEF Next, Shell
-----------------------------------------------------------------------------
(* The variables, in any list of commands *)

LEMMA UniqueStep ==
    ASSUME TInv, KeysUnique, [Next]_vars
    PROVE  KeysUnique'
<1>1. CASE phase_check
  <2>1. Unique(env')
    BY <1>1, BuiltinTypes DEF phase_check
  <2> QED BY <2>1 DEF Unique, KeysUnique
<1>2. CASE UNCHANGED env
  BY <1>2 DEF KeysUnique
<1>3. phase_check \/ UNCHANGED env
  BY
    DEF Next, Shell, vars, EndOfInput, Line, NextSegment, HereDocument,
        HereDocumentEnds,
         Skip, Enter, phase_check, Exit, ReadFreed, fork, phase_end, minishell_end,
         ChildBlocks, ChildEnds, Signal
<1> QED BY <1>1, <1>2, <1>3

LEMMA TypesAlways == Spec => [](TInv /\ KeysUnique)
<1>1. Init => TInv /\ KeysUnique
  <2>1. Init => KeysUnique
    <3> SUFFICES ASSUME Init PROVE KeysUnique
      OBVIOUS
    <3>1. PICK n \in 0 .. 1 : env \in [1 .. n -> Variable]
      BY DEF Init
    <3>2. \A m1, m2 \in DOMAIN env : m1 = m2
      BY <3>1
    <3> QED BY <3>2 DEF KeysUnique
  <2> QED BY <2>1, InitTypes
<1>2. TInv /\ KeysUnique /\ [Next]_vars => (TInv /\ KeysUnique)'
  BY TypesStep, UniqueStep
<1> QED BY <1>1, <1>2, PTL DEF Spec

\* Every variable keeps its type: every stream leads somewhere.
THEOREM TypeCorrect == Spec => []TypeOK
  BY TypesAlways, TypesAre, PTL

\* export and unset never leave a key in the list twice.
THEOREM KeysStayUnique == Spec => []KeysUnique
  BY TypesAlways, PTL

\* export gives the variable it names its value or refuses it, unset removes it,
\* cd writes its own two, and no other variable changes.
THEOREM ChangesOneVariable == Spec => ExportAndUnset
<1> DEFINE A == pc = "phase_check" /\ pc' = "fork" =>
          LET arg == segment.arg
              cmd == segment.cmd
          IN  /\ cmd = "unset" => ~Defined(env', arg.key)
              /\ cmd = "export" =>
                    IF Refused(env, arg) THEN env' = env /\ err' = 1
                    ELSE /\ Defined(env', arg.key)
                         /\ arg.equals => get_value(env', arg.key) = arg.value
              /\ \A key \in Key : cmd \notin {"export", "unset"} \/ key # arg.key =>
                    /\ Defined(env', key) <=> Defined(env, key)
                    /\ cmd # "cd" \/ key \notin Directory =>
                          get_value(env', key) = get_value(env, key)
<1>1. TInv /\ KeysUnique /\ Next => A
  <2> SUFFICES ASSUME TInv, KeysUnique, Next, pc = "phase_check", pc' = "fork"
               PROVE  A
    OBVIOUS
  <2>1. exec_builtin
    BY DEF Next, Shell, EndOfInput, Line, NextSegment, HereDocument, HereDocumentEnds,
           Skip, Enter, phase_check, Exit, ReadFreed, fork, phase_end, minishell_end,
           ChildBlocks, ChildEnds, Signal
  <2>2. env \in Seq(Variable) /\ Unique(env) /\ segment.arg \in Argument
    BY SegmentType DEF TInv, Records, KeysUnique, Unique
  <2>3. CASE segment.cmd = "export"
    <3>1. env' = mini_export(env, segment.arg) /\ err' = export_err(env, err, segment.arg)
      BY <2>1, <2>3 DEF exec_builtin
    <3>2. CASE Refused(env, segment.arg)
      <4>1. env' = env /\ err' = 1
        BY <3>1, <3>2, RefusedIsLeft DEF export_err
      <4> QED BY <2>3, <3>2, <4>1
    <3>3. CASE ~Refused(env, segment.arg)
      <4>1. PICK value \in Value \cup {Null} :
                /\ Sets(env, env', segment.arg.key, value)
                /\ segment.arg.equals => value = segment.arg.value
        BY <2>2, <3>1, <3>3, ExportSets
      <4> QED BY <2>3, <3>3, <4>1 DEF Sets, Same
    <3> QED BY <3>2, <3>3
  <2>4. CASE segment.cmd = "unset"
    <3>1. env' = mini_unset(env, segment.arg.key)
      BY <2>1, <2>4 DEF exec_builtin
    <3>2. ~Defined(env', segment.arg.key)
      BY <2>2, <3>1, UnsetRemoves
    <3>3. \A key \in Key : key # segment.arg.key => Same(env, env', key)
      BY <2>2, <3>1, UnsetRemoves
    <3> QED BY <2>4, <3>2, <3>3 DEF Same
  <2>5. CASE segment.cmd = "cd"
    <3>1. \/ env' = env
          \/ \E value \in [Directory -> Value] : env' = set_dir(env, value)
      BY <2>1, <2>5 DEF exec_builtin
    <3>2. \A key \in Key :
              /\ Defined(env', key) <=> Defined(env, key)
              /\ key \notin Directory => get_value(env', key) = get_value(env, key)
      BY <2>2, <3>1, SetDirWrites DEF Same
    <3> QED BY <2>5, <3>2
  <2>6. CASE segment.cmd \notin {"export", "unset", "cd"}
    BY <2>1, <2>6 DEF exec_builtin
  <2> QED BY <2>3, <2>4, <2>5, <2>6
<1>2. TInv /\ KeysUnique /\ [Next]_vars => [A]_vars
  BY <1>1
<1> QED BY <1>2, TypesAlways, PTL DEF Spec, ExportAndUnset
-----------------------------------------------------------------------------
(* The streams of a line *)

OrIs == or = 1 <=> previous.sep = "||" /\ previous.ran /\ previous.err = 0

\* What a segment reads.
Source == IF segment.in /\ input # Closed THEN File(k)
          ELSE IF previous.piped THEN Pipe(k - 1)
          ELSE Terminal

\* Between two segments the shell's own streams are those the next one is to
\* inherit.
Between ==
    pc \in {"prompt", "loop"} =>
        /\ k = 0 => ~previous.stray /\ ~previous.piped /\ ~previous.ran
        /\ cat = 1 => ~previous.piped /\ ~previous.ran
        /\ ~previous.stray =>
              fd1 = Terminal /\ fd0 = (IF previous.piped THEN Pipe(k) ELSE Terminal)

\* In a segment its redirections are the shell's own.
Within ==
    pc \in {"phase_enter", "phase_check", "fork"} =>
        /\ segment.out /\ output # Closed => fd1 = File(k) /\ output = File(k)
        /\ ~previous.stray => fd0 = Source
        /\ ~previous.stray /\ ~redirected => fd1 = Terminal

\* While its command runs the shell already has the stream for the next.
After ==
    pc = "waitpid" =>
        /\ segment.sep = "|" => fd0 = Pipe(k)
        /\ ~previous.stray /\ ~redirected => fd1 = Terminal
        /\ child # NoChild =>
              /\ ~previous.stray => child.in = Source
              /\ segment.out /\ output # Closed => child.out = File(k)
              /\ ~previous.stray /\ ~redirected =>
                    child.out = IF segment.sep = "|" THEN Pipe(k) ELSE Terminal

\* The flags.
Marks ==
    /\ previous.piped => previous.sep = "|"
    /\ pc \in {"prompt", "loop", "phase_enter"} /\ ~previous.stray => OrIs
    /\ pc \in {"phase_check", "fork", "waitpid"} => or = 0
    /\ pc \in {"phase_enter", "phase_check", "fork", "waitpid"} =>
          cat # 1 /\ (redirected <=> segment.in \/ segment.out)
    /\ pipes.open => pc = "fork" /\ segment.sep = "|"
    /\ pc = "fork" /\ segment.sep = "|" => pip = 1 /\ pipes.open /\ pipes.latest = k

SInv == Between /\ Within /\ After /\ Marks

LEMMA StreamsInit == Init => SInv
  BY DEF Init, SInv, Between, Within, After, Marks, OrIs, NoPrevious

LEMMA StreamsStep ==
    ASSUME TInv, SInv, [Next]_vars
    PROVE  SInv'
<1>1. CASE EndOfInput \/ Line
  BY <1>1
    DEF EndOfInput, Line, descriptors, SInv, Between, Within, After, Marks, OrIs, Source
<1>2. CASE NextSegment
  <2>1. PICK s \in Segments :
          /\ k = 0 => (exits <=> s.cmd \in {"exit", "exit 1 2"})
          /\ segment' = s
          /\ k' = k + 1
          /\ IF SkipsCat(s)
             THEN /\ cat' = 1
                  /\ previous' = [NoPrevious EXCEPT !.sep = "|", !.stray = previous.stray]
                  /\ UNCHANGED <<pc, descriptors>>
             ELSE /\ cat' = IF cat # 1 /\ k > 0 THEN cat ELSE 2
                  /\ pc' = "phase_enter"
                  /\ redirected' = (s.in \/ s.out)
                  /\ \E file \in IF s.in THEN {File(k + 1), Closed} ELSE {input} :
                        /\ input' = file
                        /\ fd0' = IF s.in THEN Redirect(fd0, file) ELSE fd0
                  /\ \E file \in IF s.out THEN {File(k + 1), Closed} ELSE {output} :
                        /\ output' = file
                        /\ fd1' = IF s.out THEN Redirect(fd1, file) ELSE fd1
                  /\ UNCHANGED previous
    BY <1>2 DEF NextSegment
  <2>2. /\ pc = "loop" /\ UNCHANGED <<pip, pipes, or, child>> /\ ~pipes.open
        /\ k \in Nat /\ k' = k + 1 /\ k' - 1 = k /\ k' # 0 /\ segment' = s
    <3>1. pc = "loop" /\ UNCHANGED <<pip, pipes, or, child>> /\ k' = k + 1 /\ segment' = s
      BY <1>2, <2>1 DEF NextSegment
    <3>2. k \in Nat
      BY DEF TInv, Flags
    <3>3. ~pipes.open
      BY <3>1 DEF SInv, Marks
    <3>4. k' - 1 = k /\ k' # 0
      BY <3>1, <3>2
    <3> QED BY <3>1, <3>2, <3>3, <3>4
  <2>3. CASE SkipsCat(s)
    <3>1. UNCHANGED <<pc, fd0, fd1>> /\ cat' = 1
      BY <2>1, <2>3 DEF descriptors
    <3>2. previous' = [sep |-> "|", ran |-> FALSE, err |-> 0, piped |-> FALSE,
                       stray |-> previous.stray]
      BY <2>1, <2>3 DEF NoPrevious
    <3>3. previous'.sep = "|" /\ ~previous'.ran /\ ~previous'.piped
          /\ (previous'.stray <=> previous.stray)
      BY <3>2
    <3>4. ~previous.ran /\ ~previous.piped
      BY <2>2, <2>3 DEF SkipsCat, SInv, Between
    <3>5. Between'
      BY <2>2, <3>1, <3>3, <3>4 DEF SInv, Between
    <3>6. ~previous.stray => ~ (or = 1)
      BY <2>2, <3>4 DEF SInv, Marks, OrIs
    <3>7. Marks'
      BY <2>2, <3>1, <3>3, <3>6 DEF SInv, Marks, OrIs
    <3> QED BY <2>2, <3>1, <3>5, <3>7 DEF SInv, Within, After
  <2>4. CASE ~SkipsCat(s)
    <3>1. /\ cat' # 1 /\ pc' = "phase_enter" /\ redirected' = (s.in \/ s.out)
          /\ s.out /\ output' # Closed => output' = File(k') /\ fd1' = File(k')
          /\ ~s.out => fd1' = fd1
          /\ UNCHANGED previous
      <4>1. cat' # 1
        <5>1. cat' = IF cat # 1 /\ k > 0 THEN cat ELSE 2
          BY <2>1, <2>4, Zenon
        <5> QED BY <5>1
      <4>2. pc' = "phase_enter"
        BY <2>1, <2>4
      <4>3. redirected' = (s.in \/ s.out)
        BY <2>1, <2>4, Zenon
      <4>4. /\ s.out /\ output' # Closed => output' = File(k') /\ fd1' = File(k')
            /\ ~s.out => fd1' = fd1
        <5>1. PICK file \in IF s.out THEN {File(k'), Closed} ELSE {output} :
                 output' = file /\ fd1' = IF s.out THEN Redirect(fd1, file) ELSE fd1
          BY <2>1, <2>2, <2>4
        <5> QED BY <5>1 DEF Redirect
      <4>5. UNCHANGED previous
        BY <2>1, <2>4
      <4> QED BY <4>1, <4>2, <4>3, <4>4, <4>5
    <3>2. fd0' = IF s.in /\ input' # Closed THEN File(k') ELSE fd0
      <4>1. PICK file \in IF s.in THEN {File(k'), Closed} ELSE {input} :
               input' = file /\ fd0' = IF s.in THEN Redirect(fd0, file) ELSE fd0
        BY <2>1, <2>4
      <4> QED BY <4>1 DEF Redirect
    <3>3. k' - 1 = k
      BY <2>2
    <3>4. ~previous.stray =>
              fd1 = Terminal /\ fd0 = (IF previous.piped THEN Pipe(k) ELSE Terminal)
      BY <2>2 DEF SInv, Between
    <3>5. ~previous.stray => fd0' = Source'
      BY <2>1, <3>1, <3>2, <3>3, <3>4 DEF Source
    <3>6. Within'
      BY <2>1, <3>1, <3>4, <3>5 DEF Within
    <3>7. Marks'
      BY <2>1, <2>2, <3>1 DEF SInv, Marks, OrIs
    <3> QED BY <3>1, <3>6, <3>7 DEF SInv, Between, After
  <2> QED BY <2>3, <2>4
<1>3. CASE HereDocument
  BY <1>3 DEF HereDocument, SInv, Between, Within, After, Marks, OrIs
<1>4. CASE HereDocumentEnds
  <2>1. /\ previous' = [sep |-> segment.sep, ran |-> FALSE, err |-> 0, piped |-> FALSE,
                         stray |-> TRUE]
        /\ pc = "wait" /\ pc' \in {"minishell_end", "loop"} /\ UNCHANGED <<k, pipes>>
    BY <1>4 DEF HereDocumentEnds, NoPrevious
  <2>2. previous'.stray /\ ~previous'.piped /\ ~previous'.ran
    BY <2>1
  <2>3. k >= 1 /\ k \in Nat /\ ~pipes.open
    BY <2>1 DEF TInv, Flags, Bounds, SInv, Marks
  <2> QED BY <2>1, <2>2, <2>3 DEF SInv, Between, Within, After, Marks
<1>5. CASE Skip
  <2>1. /\ pc = "phase_enter" /\ or = 1 /\ or' = 0
        /\ pc' \in {"minishell_end", "loop"} /\ UNCHANGED <<fd0, fd1, k, cat, pipes>>
        /\ previous' = [sep |-> segment.sep, ran |-> FALSE, err |-> err, piped |-> FALSE,
                         stray |-> previous.stray \/ redirected]
    BY <1>5 DEF Skip, AfterSegment, descriptors
  <2>2. /\ ~previous'.piped /\ ~previous'.ran
        /\ (previous'.stray <=> previous.stray \/ redirected)
    BY <2>1
  <2>3. k >= 1 /\ k \in Nat /\ ~pipes.open /\ cat # 1
    BY <2>1 DEF TInv, Flags, Bounds, SInv, Marks
  <2>4. ~previous.stray /\ ~redirected => fd1 = Terminal /\ fd0 = Terminal
    <3>1. ~previous.stray => ~previous.piped
      BY <2>1 DEF SInv, Marks, OrIs
    <3>2. ~redirected => ~segment.in
      BY <2>1 DEF SInv, Marks
    <3> QED BY <2>1, <3>1, <3>2 DEF SInv, Within, Source
  <2>5. Between'
    BY <2>1, <2>2, <2>3, <2>4 DEF Between
  <2>6. Marks'
    BY <2>1, <2>2, <2>3 DEF Marks, OrIs
  <2> QED BY <2>1, <2>5, <2>6 DEF SInv, Within, After
<1>6. CASE Enter \/ Exit \/ ReadFreed
  BY <1>6
    DEF Enter, Exit, ReadFreed, descriptors, SInv, Between, Within, After, Marks,
        OrIs, Source, TInv, Flags
<1>7. CASE phase_check
  <2>1. /\ pc = "phase_check" /\ pc' = "fork"
        /\ UNCHANGED <<fd0, input, output, k, segment, redirected, or, cat, previous>>
        /\ fd1' = IF segment.cmd \notin Builtin1 THEN fd1
                  ELSE IF ~redirected THEN Terminal
                  ELSE Redirect(DevNull, output)
        /\ IF segment.sep = "|"
           THEN pipes' = [latest |-> k, open |-> TRUE] /\ pip' = 1
           ELSE UNCHANGED <<pipes, pip>>
    BY <1>7 DEF phase_check
  <2>2. /\ segment.out => redirected
        /\ segment.out /\ output # Closed => fd1 = File(k) /\ output = File(k)
        /\ ~previous.stray => fd0 = Source
        /\ ~previous.stray /\ ~redirected => fd1 = Terminal
        /\ or = 0 /\ cat # 1 /\ (redirected <=> segment.in \/ segment.out)
        /\ ~pipes.open
    BY <2>1 DEF SInv, Within, Marks
  <2>3. segment.out /\ output # Closed => fd1' = File(k)
    <3>1. File(k) # Closed
      BY DEF File, Closed
    <3> QED BY <2>1, <2>2, <3>1 DEF Redirect
  <2>4. ~previous.stray /\ ~redirected => fd1' = Terminal
    BY <2>1, <2>2
  <2>5. Source' = Source
    BY <2>1 DEF Source
  <2>6. Within'
    BY <2>1, <2>2, <2>3, <2>4, <2>5 DEF Within
  <2>7. Marks'
    <3>1. /\ segment.sep = "|" => pip' = 1 /\ pipes'.open /\ pipes'.latest = k
          /\ segment.sep # "|" => ~pipes'.open
      BY <2>1, <2>2
    <3>2. previous.piped => previous.sep = "|"
      BY DEF SInv, Marks
    <3> QED BY <2>1, <2>2, <3>1, <3>2 DEF Marks
  <2> QED BY <2>1, <2>6, <2>7 DEF SInv, Between, After
<1>8. CASE fork
  <2>1. /\ pc = "fork" /\ pc' = "waitpid"
        /\ UNCHANGED <<fd1, input, output, k, segment, redirected, pip, or, cat, previous>>
        /\ child' = [cmd |-> segment.cmd,
                      in |-> fd0,
                      out |-> IF pip = 1 /\ ~redirected /\ pipes.open
                              THEN Pipe(pipes.latest) ELSE fd1,
                      blocked |-> FALSE]
        /\ IF pip = 1
           THEN /\ fd0' = Pipe(pipes.latest)
                /\ pipes' = [pipes EXCEPT !.open = FALSE]
           ELSE UNCHANGED <<fd0, pipes>>
    BY <1>8 DEF fork
  <2>2. /\ segment.out => redirected
        /\ segment.out /\ output # Closed => fd1 = File(k)
        /\ ~previous.stray => fd0 = Source
        /\ ~previous.stray /\ ~redirected => fd1 = Terminal
        /\ or = 0 /\ cat # 1 /\ (redirected <=> segment.in \/ segment.out)
        /\ pipes.open => segment.sep = "|"
        /\ segment.sep = "|" => pip = 1 /\ pipes.open /\ pipes.latest = k
        /\ previous.piped => previous.sep = "|"
    BY <2>1 DEF SInv, Within, Marks
  <2>3. ~pipes'.open
    <3>1. CASE pip = 1
      BY <2>1, <3>1 DEF TInv, Records, PipesType
    <3>2. CASE pip # 1
      BY <2>1, <2>2, <3>2
    <3> QED BY <3>1, <3>2
  <2>4. /\ child'.in = fd0
        /\ child'.out = IF pip = 1 /\ ~redirected /\ pipes.open
                        THEN Pipe(pipes.latest) ELSE fd1
    BY <2>1
  <2>5. Source' = Source
    BY <2>1 DEF Source
  <2>6. After'
    BY <2>1, <2>2, <2>4, <2>5 DEF After
  <2>7. Marks'
    BY <2>1, <2>2, <2>3 DEF Marks
  <2> QED BY <2>1, <2>6, <2>7 DEF SInv, Between, Within
<1>9. CASE ChildBlocks \/ ChildEnds \/ Signal
  <2>1. UNCHANGED <<pc, fd0, fd1, input, output, k, segment, redirected, pip, pipes, or,
                    cat, previous>>
    BY <1>9 DEF ChildBlocks, ChildEnds, Signal, descriptors
  <2>2. \/ child' = NoChild
        \/ child # NoChild /\ child'.in = child.in /\ child'.out = child.out
    BY <1>9 DEF ChildBlocks, ChildEnds, Signal, TInv, Records, ChildType
  <2>3. Source' = Source /\ (OrIs' <=> OrIs)
    BY <2>1 DEF Source, OrIs
  <2>4. After'
    BY <2>1, <2>2, <2>3 DEF SInv, After
  <2>5. Between' /\ Within' /\ Marks'
    BY <2>1, <2>3 DEF SInv, Between, Within, Marks
  <2> QED BY <2>4, <2>5 DEF SInv
<1>10. CASE phase_end
  <2>1. /\ pc = "waitpid" /\ pc' \in {"minishell_end", "loop"}
        /\ or' = IF segment.sep = "||" /\ err' = 0 THEN 1 ELSE or
        /\ IF segment.sep = "|"
           THEN UNCHANGED <<fd0, fd1>>
           ELSE fd0' = Terminal /\ fd1' = Terminal
        /\ previous' = [sep |-> segment.sep, ran |-> TRUE, err |-> err',
                         piped |-> segment.sep = "|" /\ ~redirected,
                         stray |-> segment.sep = "|" /\ (redirected \/ previous.stray)]
        /\ UNCHANGED <<k, cat, pipes>>
    BY <1>10 DEF phase_end, AfterSegment
  <2>2. /\ previous'.sep = segment.sep /\ previous'.ran /\ previous'.err = err'
        /\ (previous'.piped <=> segment.sep = "|" /\ ~redirected)
        /\ (previous'.stray <=> segment.sep = "|" /\ (redirected \/ previous.stray))
    BY <2>1
  <2>3. k >= 1 /\ k \in Nat /\ ~pipes.open /\ cat # 1 /\ or = 0
    BY <2>1 DEF TInv, Flags, Bounds, SInv, Marks
  <2>4. /\ segment.sep = "|" => fd0 = Pipe(k)
        /\ ~previous.stray /\ ~redirected => fd1 = Terminal
    BY <2>1 DEF SInv, After
  <2>5. Between'
    BY <2>1, <2>2, <2>3, <2>4 DEF Between
  <2>6. OrIs'
    BY <2>1, <2>2, <2>3 DEF OrIs
  <2>7. Marks'
    BY <2>1, <2>2, <2>3, <2>6 DEF Marks
  <2> QED BY <2>1, <2>5, <2>7 DEF SInv, Within, After
<1>11. CASE minishell_end
  BY <1>11 DEF minishell_end, NoPrevious, SInv, Between, Within, After, Marks, OrIs
<1>12. CASE UNCHANGED vars
  BY <1>12 DEF vars, descriptors, SInv, Between, Within, After, Marks, OrIs, Source
<1> QED BY <1>1, <1>2, <1>3, <1>4, <1>5, <1>6, <1>7, <1>8, <1>9, <1>10, <1>11, <1>12
    DEF Next, Shell

LEMMA StreamsAlways == Spec => [](TInv /\ SInv)
<1>1. Init => SInv
  BY StreamsInit
<1>2. TInv /\ SInv /\ [Next]_vars => SInv'
  BY StreamsStep
<1> QED BY <1>1, <1>2, TypesAlways, PTL DEF Spec

\* A command reads its redirection, or what the segment before the | wrote.
THEOREM CommandsRead == Spec => []ReadsFromPrevious
<1>1. SInv => ReadsFromPrevious
  BY DEF SInv, After, Source, ReadsFromPrevious, Running
<1> QED BY <1>1, StreamsAlways, PTL

\* A command writes to its redirection, or to the pipe that the next one reads.
THEOREM CommandsWrite == Spec => []WritesToNext
<1>1. SInv => WritesToNext
  BY DEF SInv, After, WritesToNext, Running
<1> QED BY <1>1, StreamsAlways, PTL

\* What is skipped after a || depends on the command before it alone.
THEOREM SkipsAfterSuccess == Spec => []OrIsAboutPrevious
<1>1. SInv => OrIsAboutPrevious
  BY DEF SInv, Marks, OrIs, OrIsAboutPrevious
<1> QED BY <1>1, StreamsAlways, PTL
=============================================================================
