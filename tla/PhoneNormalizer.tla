-------------------------- MODULE PhoneNormalizer --------------------------
(***************************************************************************)
(* phone-normalizer.ts.  A telephone is what its algorithm tells apart:    *)
(* what it begins with, after separators and leading zeros are gone, and   *)
(* how many characters follow.                                             *)
(***************************************************************************)
EXTENDS Integers

AreaLength == 4   \* the default area code, 3564

\* prefix: what the cleaned text begins with; nine: the text after it begins with 9;
\* rest: its length after the prefix; numeric: nothing but digits.  "void": a text that is
\* empty once spaces, parentheses, dots, plus signs and hyphens are removed.
Telephone ==
  [prefix : {"void", "54", "15", "other"}, nine : BOOLEAN, rest : Nat, numeric : BOOLEAN]
IsTelephone(p) ==
  /\ p.prefix = "void" => p.rest = 0 /\ ~p.nine /\ p.numeric
  /\ p.nine => p.rest > 0
  /\ p.rest = 0 => p.numeric

\* A result: "+549" and a number of characters, or the cleaned text as it came.
Result(mobile, rest, p, valid) ==
  [mobile |-> mobile, rest |-> rest, numeric |-> p.numeric, isValid |-> valid]
Empty == [mobile |-> FALSE, rest |-> 0, numeric |-> TRUE, isValid |-> FALSE]

\* +54, 9 and the rest, 13 characters in all.
Thirteen(rest) == 4 + rest = 13

\* A 9 is put after 54 unless there is one.
WithCountry(p) ==
  LET rest == IF p.nine THEN p.rest - 1 ELSE p.rest IN
  Result(TRUE, rest, p, Thirteen(rest))

\* The area code goes before what is shorter than ten.
WithFifteen(p) ==
  LET rest == IF p.rest < 10 THEN AreaLength + p.rest ELSE p.rest IN
  Result(TRUE, rest, p, Thirteen(rest))

Local(p) ==
  CASE p.rest = 10 -> Result(TRUE, 10, p, TRUE)
    [] p.rest < 10 -> Result(TRUE, AreaLength + p.rest, p, AreaLength + p.rest = 10)
    [] p.rest > 10 -> Result(FALSE, p.rest, p, FALSE)

Normalize(p) ==
  CASE p.prefix = "void"  -> Empty
    [] p.prefix = "54"    -> WithCountry(p)
    [] p.prefix = "15"    -> WithFifteen(p)
    [] p.prefix = "other" -> Local(p)

\* isValidArgentinePhone, of a result: +549 and nine digits.
IsValidArgentinePhone(n) == n.mobile /\ Thirteen(n.rest) /\ n.numeric

\* The text of a result, read as a telephone again.
Reread(n) ==
  CASE n = Empty \/ (~n.mobile /\ n.rest = 0) -> [prefix |-> "void", nine |-> FALSE, rest |-> 0, numeric |-> TRUE]
    [] n.mobile -> [prefix |-> "54", nine |-> TRUE, rest |-> n.rest + 1, numeric |-> n.numeric]
    [] OTHER    -> [prefix |-> "other", nine |-> FALSE, rest |-> n.rest, numeric |-> n.numeric]

\* obtenerTurnosPorTelefono looks for the normalized form of a valid telephone, and for the
\* text itself of an invalid one: what it looks for when it is given the text of result n.
LookedUp(n) == LET again == Normalize(Reread(n)) IN
               IF again.isValid THEN [mobile |-> again.mobile, rest |-> again.rest]
                                ELSE [mobile |-> n.mobile, rest |-> n.rest]
=============================================================================
