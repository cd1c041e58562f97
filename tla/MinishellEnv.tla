---------------------------- MODULE MinishellEnv ----------------------------
(***************************************************************************)
(* The variables of minishell: a list of keys and values, in the order     *)
(* they were added. A variable may have no value.                          *)
(*                                                                         *)
(* Words are not split here: an argument of export is the key, the value   *)
(* after the sign =, if any, and whether there is that sign.               *)
(***************************************************************************)
EXTENDS Naturals, Sequences

CONSTANTS
    Key, Value,
    BadKey,    \* of Key: it does not begin with a letter
    OddKey     \* of Key: those with more than letters and digits, as MY_VAR

\* No value.
Null == "null"

ASSUME KeyAssumption == BadKey \in Key /\ OddKey \subseteq Key
ASSUME ValueAssumption == Null \notin Value

Variable == [key : Key, value : Value \cup {Null}]
Argument == [key : Key, value : Value \cup {Null}, equals : BOOLEAN]
NoArgument == [key |-> BadKey, value |-> Null, equals |-> FALSE]

add_env_var(env, key, value) == Append(env, [key |-> key, value |-> value])

\* replace_value finds an element.
Defined(env, key) == \E k \in DOMAIN env : env[k].key = key

\* The first element with that key.
Position(env, key) ==
    CHOOSE k \in DOMAIN env :
        env[k].key = key /\ \A m \in 1 .. k - 1 : env[m].key # key

get_value(env, key) ==
    IF Defined(env, key) THEN env[Position(env, key)].value ELSE Null

\* The argument A of a variable A that exists erases its value.
normal_case(env, arg) ==
    IF Defined(env, arg.key)
    THEN [env EXCEPT ![Position(env, arg.key)].value = arg.value]
    ELSE add_env_var(env, arg.key, arg.value)

\* Mutant of valid_export: a variable that has a value is added again.
valid_exportAgain(env, arg) ==
    IF arg.equals THEN add_env_var(env, arg.key, arg.value)
                  ELSE normal_case(env, arg)

\* Mutant of special_cases: the name is not looked at.
special_casesAny(env, arg) == add_env_var(env, arg.key, Null)

\* Without the sign = a new variable has a name of letters and digits only.
special_cases(env, arg) ==
    IF arg.key \in OddKey THEN env ELSE add_env_var(env, arg.key, Null)

valid_export(env, arg) ==
    IF Defined(env, arg.key) \/ arg.equals
    THEN normal_case(env, arg)
    ELSE special_cases(env, arg)

\* What export refuses; without arguments it prints the variables.
Refused(env, arg) ==
    \/ arg.key = BadKey
    \/ arg.key \in OddKey /\ ~arg.equals /\ ~Defined(env, arg.key)

mini_export(env, arg) == IF arg.key = BadKey THEN env ELSE valid_export(env, arg)
export_err(env, err, arg) == IF Refused(env, arg) THEN 1 ELSE err

mini_unset(env, key) ==
    IF Defined(env, key)
    THEN LET k == Position(env, key)
         IN  SubSeq(env, 1, k - 1) \o SubSeq(env, k + 1, Len(env))
    ELSE env

\* The list goes on at what the freed first element says.
ReadsFreed(env, key) ==
    Len(env) > 1 /\ Defined(env, key) /\ Position(env, key) = 1

\* The variables cd writes, each only if it is there and has a value. What it
\* copies into the second was freed by the cd before, or never set.
Directory == {"PWD", "OLDPWD"}

set_dir(env, value) ==
    [n \in DOMAIN env |->
        IF /\ env[n].key \in Directory
           /\ n = Position(env, env[n].key)
           /\ env[n].value # Null
        THEN [env[n] EXCEPT !.value = value[env[n].key]]
        ELSE env[n]]

ReadsOldpwd(env) == get_value(env, "OLDPWD") # Null
=============================================================================
