-------------------------------- MODULE Mutes --------------------------------
(***************************************************************************)
(* Muting the members of one group.  /group mute orders it at the gateway  *)
(* (src/wa/commands/group.ts), a reliable frame carries the order to the   *)
(* bridge, which keeps the mutes in moderation.db behind a cache           *)
(* (db/moderation_repository.py), and the gate of the inbound path deletes *)
(* the messages of the muted (agent/mute_gate.py).                         *)
(*                                                                         *)
(* A mute is the time it was set and its minutes.  The cache of a member   *)
(* is Unknown, "not muted" (Free) or an entry, which may have expired.     *)
(***************************************************************************)
EXTENDS Naturals, Sequences

CONSTANTS
    People,
    Longest,      \* 1440 minutes in the code
    Durations,    \* what /group mute may ask for, 0 to unmute
    Unknown, Free, None,
    Horizon,      \* the last moment looked at (a model bound)
    MaxOrders     \* orders given (a model bound)

VARIABLES
    now,
    orders,       \* frames on their way to the bridge
    given,
    rows,         \* chat_mutes: member -> mute, or None
    cache,        \* _mute_cache
    until,        \* the time each member must stay quiet until, by the orders
                  \* the bridge has handled
    verdict       \* the gate's latest answer, and the one that was due

vars == <<now, orders, given, rows, cache, until, verdict>>

Mute(at, minutes) == [at |-> at, minutes |-> minutes]
Active(m) == now < m.at + m.minutes
Least(a, b) == IF a < b THEN a ELSE b

Init ==
    /\ now = 0
    /\ orders = <<>> /\ given = 0
    /\ rows = [p \in People |-> None]
    /\ cache = [p \in People |-> Unknown]
    /\ until = [p \in People |-> 0]
    /\ verdict = None

-----------------------------------------------------------------------------
(* Orders.                                                                  *)

\* /group mute.
Ask(p, d) ==
    /\ given < MaxOrders
    /\ given' = given + 1
    /\ orders' = Append(orders, [who |-> p, minutes |-> d])
    /\ UNCHANGED <<now, rows, cache, until, verdict>>

\* The bot is demoted; Demoted travels in the same line as the orders.
Demote ==
    /\ given < MaxOrders
    /\ given' = given + 1
    /\ orders' = Append(orders, [who |-> None, minutes |-> 0])
    /\ UNCHANGED <<now, rows, cache, until, verdict>>

\* Mutant: the row is written, and what the cache holds stays.
AddRow(p, d) ==
    LET m == Mute(now, Least(d, Longest))
    IN  /\ rows' = [rows EXCEPT ![p] = m]
        /\ until' = [until EXCEPT ![p] = now + m.minutes]
        /\ UNCHANGED cache

\* add_mute clamps the minutes and writes the row and the cache.
Add(p, d) ==
    LET m == Mute(now, Least(d, Longest))
    IN  /\ rows' = [rows EXCEPT ![p] = m]
        /\ cache' = [cache EXCEPT ![p] = m]
        /\ until' = [until EXCEPT ![p] = now + m.minutes]

\* remove_mute
Remove(p) ==
    /\ rows' = [rows EXCEPT ![p] = None]
    /\ cache' = [cache EXCEPT ![p] = Unknown]
    /\ until' = [until EXCEPT ![p] = now]

\* clear_mutes
Clear ==
    /\ rows' = [p \in People |-> None]
    /\ cache' = [p \in People |-> Unknown]
    /\ until' = [p \in People |-> now]

Handle ==
    LET o == Head(orders)
    IN  /\ orders # <<>>
        /\ orders' = Tail(orders)
        /\ IF o.who = None
           THEN Clear
           ELSE IF o.minutes = 0 THEN Remove(o.who) ELSE Add(o.who, o.minutes)
        /\ UNCHANGED <<now, given, verdict>>

-----------------------------------------------------------------------------
(* is_muted: cache first.  A cached mute that has expired is forgotten and   *)
(* its row stays; without a cached answer the row decides, an expired one is *)
(* deleted, and the answer is cached.                                       *)

Judged(p, answer) == verdict' = [deleted |-> answer, due |-> now < until[p]]

FromCache(p) ==
    /\ cache[p] # Unknown
    /\ IF cache[p] = Free \/ Active(cache[p])
       THEN UNCHANGED cache
       ELSE cache' = [cache EXCEPT ![p] = Unknown]
    /\ Judged(p, cache[p] # Free /\ Active(cache[p]))
    /\ UNCHANGED <<now, orders, given, rows, until>>

FromRow(p) ==
    LET active == rows[p] # None /\ Active(rows[p])
    IN  /\ cache[p] = Unknown
        /\ cache' = [cache EXCEPT ![p] = IF active THEN rows[p] ELSE Free]
        /\ rows' = [rows EXCEPT ![p] = IF active THEN @ ELSE None]
        /\ Judged(p, active)
        /\ UNCHANGED <<now, orders, given, until>>

\* list_active_mutes, for the prompt: expired rows go, with what is cached.
List ==
    LET expired == {p \in People : rows[p] # None /\ ~Active(rows[p])}
    IN  /\ expired # {}
        /\ rows' = [p \in People |-> IF p \in expired THEN None ELSE rows[p]]
        /\ cache' = [p \in People |-> IF p \in expired THEN Unknown ELSE cache[p]]
        /\ UNCHANGED <<now, orders, given, until, verdict>>

-----------------------------------------------------------------------------
\* The bridge restarts: the database stays.
Restart ==
    /\ cache # [p \in People |-> Unknown]
    /\ cache' = [p \in People |-> Unknown]
    /\ UNCHANGED <<now, orders, given, rows, until, verdict>>

Tick ==
    /\ now < Horizon
    /\ now' = now + 1
    /\ UNCHANGED <<orders, given, rows, cache, until, verdict>>

Next ==
    \/ Handle \/ Demote \/ List \/ Restart \/ Tick
    \/ \E p \in People : FromCache(p) \/ FromRow(p)
    \/ \E p \in People, d \in Durations : Ask(p, d)

Spec == Init /\ [][Next]_vars

-----------------------------------------------------------------------------
IsMute(m) == m \in [at : 0..Horizon, minutes : 1..Longest]

TypeOK ==
    /\ now \in 0..Horizon /\ given \in 0..MaxOrders
    /\ \A p \in People : rows[p] = None \/ IsMute(rows[p])
    /\ \A p \in People : cache[p] \in {Unknown, Free} \/ IsMute(cache[p])
    /\ \A p \in People : until[p] \in Nat

\* The gate deletes a message exactly if its sender is muted by the orders the
\* bridge has handled, whatever the cache remembers of earlier mutes.
GateIsRight == verdict # None => verdict.deleted = verdict.due
=============================================================================
