------------------------------ MODULE HxTrans ------------------------------
(***************************************************************************)
(* Transaction ids and the table of requests that await a reply, as        *)
(* hxsession's Session keeps them: a u32 counter that skips 0, and a map    *)
(* from trans to what the reply is for, cut back when it is full.          *)
(* The state they live in belongs to HxSession; these are its operations.  *)
(***************************************************************************)
EXTENDS Naturals, FiniteSets

CONSTANTS
  TransSpace,   \* how many values a trans has: 2^32 in the code
  MaxPending    \* MAX_PENDING, 4096 in the code

ASSUME TransAssumption ==
  /\ TransSpace \in Nat /\ TransSpace > 1
  /\ MaxPending \in Nat /\ MaxPending > 1

Trans == 0 .. TransSpace - 1

\* wrapping_add(1).max(1): past the last value the counter goes on from 1.
NextTrans(t) == IF t + 1 = TransSpace THEN 1 ELSE t + 1

\* wrapping_sub: how long before newest the trans t was handed out, as long
\* as the counter has not lapped t.
Since(newest, t) ==
  IF t <= newest THEN newest - t ELSE newest + TransSpace - t

\* Recent, were the comparison the other way round.
MutRecent(table, newest) ==
  {t \in DOMAIN table : Since(newest, t) >= MaxPending \div 2}

\* What a full table keeps when `newest' is to be added: its recent half.
Recent(table, newest) ==
  {t \in DOMAIN table : Since(newest, t) < MaxPending \div 2}

\* Kept, were the limit checked after the entry is added.
MutKept(table, newest) ==
  IF Cardinality(DOMAIN table) > MaxPending
    THEN Recent(table, newest)
    ELSE DOMAIN table

Kept(table, newest) ==
  IF Cardinality(DOMAIN table) >= MaxPending
    THEN Recent(table, newest)
    ELSE DOMAIN table

Remember(table, t, what) ==
  [u \in Kept(table, t) \cup {t} |-> IF u = t THEN what ELSE table[u]]

Forget(table, ts) == [u \in DOMAIN table \ ts |-> table[u]]

NothingPending == [u \in {} |-> "none"]

\* A table of what replies are for, of the given kinds.
IsTable(table, kinds) == table \in [DOMAIN table -> kinds] /\ DOMAIN table \subseteq Trans

\* What the reply on t is for; "none" when nothing was remembered.
Awaited(table, t) == IF t \in DOMAIN table THEN table[t] ELSE "none"
=============================================================================
