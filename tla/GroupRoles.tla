---------------------------- MODULE GroupRoles ----------------------------
(* Who is an admin of a group, as the gateway knows it: the cached metadata *)
(* of one group, the fetches that fill it, the notices that empty it, and   *)
(* the kicks, commands, buttons and name lookups that judge by it.  The     *)
(* caches are keyed by group, so one group stands for all.                  *)
(*                                                                          *)
(* A snapshot carries two history values: "seen", how many role changes it  *)
(* holds, and "late", whether a notice was handled while it was fetched.    *)
EXTENDS Integers, Sequences, FiniteSets

CONSTANTS
    People,     \* members, past and future ones too
    Bot,        \* the account itself
    Nameless,   \* the people whose name no metadata gives
    MaxChanges, \* bound: changes of roles on WhatsApp
    None

Jids == People \cup {Bot}

VARIABLES
    roles,     \* WhatsApp: the role of each, "out", "member" or "admin"
    changes,   \* WhatsApp: how many changes there were
    notices,   \* group-participants.update events on their way
    handled,   \* the last change whose notice was handled
    cache,     \* groupMetadataCache: a snapshot and whether it is "fresh"
    cooling,   \* groupMetadataCooldownUntil lies ahead
    fetches,   \* groupMetadata calls under way
    inflight,  \* groupMetadataInflight: the fetch callers join
    miss,      \* groupParticipantNameMissUntil lies ahead
    kicks,     \* removals WhatsApp was asked for
    failures,  \* failed fetches since the last cooldown ended (history)
    lookups,   \* fetches a name lookup began, per miss window (history)
    acted      \* what this step let through, with the snapshot judged by

world == <<roles, changes, notices, handled>>
vars  == <<world, cache, cooling, fetches, inflight, miss, kicks, failures,
           lookups, acted>>

----------------------------------------------------------------------------
(* Snapshots.                                                               *)

\* defaultGroupContext: nobody has any role.
Default == [roles |-> [j \in Jids |-> "out"], seen |-> 0, late |-> FALSE]

\* getCachedGroupMetadata: a cached snapshot of at most sixty seconds.
Fresh == cache # None /\ cache.age = "fresh"
Cached == [roles |-> cache.roles, seen |-> cache.seen, late |-> cache.late]

\* freshestGroupSnapshot: reading the cache has already dropped an old entry.
Freshest == IF Fresh THEN Cached ELSE Default
DropOld == cache' = IF Fresh THEN cache ELSE None

\* normalizeGroupMetadata and rememberGroupMetadata, of what WhatsApp sent.
Stored(f) == [roles |-> f.roles, seen |-> f.seen, late |-> f.late, age |-> "fresh"]

----------------------------------------------------------------------------
(* What is decided by a snapshot.                                           *)

Kick(p)    == [do |-> "kick", of |-> p]
Command(p) == [do |-> "command", of |-> p]
RunCommand == [do |-> "run", of |-> Bot]
Name(p)    == [do |-> "name", of |-> p]
Join       == [do |-> "join", of |-> Bot]

\* kickMembers: the bot is an admin, the target a member and no admin.
KickAllowed(p, g) == g.roles[Bot] = "admin" /\ g.roles[p] = "member"

\* dispatchCommand, of a command for admins; dispatchRunCommand lends the
\* model the bot's own role.
SenderIsAdmin(p, g) == g.roles[p] = "admin"

LetThrough(q, g) ==
    \/ q.do = "kick" /\ KickAllowed(q.of, g)
    \/ q.do \in {"command", "run", "button"} /\ SenderIsAdmin(q.of, g)

\* The requests of qs go on with snapshot g; a name not found is remembered.
Decide(qs, g) ==
    /\ acted' = {[q |-> q, seen |-> g.seen, late |-> g.late] :
                    q \in {q \in qs : LetThrough(q, g)}}
    /\ kicks' = kicks \cup {q.of : q \in {q \in qs : q.do = "kick" /\ LetThrough(q, g)}}
    /\ miss' = miss \cup {q.of : q \in {q \in qs : q.do = "name" /\ q.of \in Nameless}}

Wait == acted' = {} /\ UNCHANGED <<kicks, miss>>

----------------------------------------------------------------------------
(* getGroupContext.                                                         *)

NewFetch(q) == [id |-> CHOOSE n \in 1 .. 3 : \A f \in fetches : f.id # n,
                seen |-> None, roles |-> None, late |-> FALSE, asking |-> {q}]

Begin(q) ==
    /\ fetches' = fetches \cup {NewFetch(q)}
    /\ inflight' = NewFetch(q).id
    /\ lookups' = IF q.do = "name" THEN [lookups EXCEPT ![q.of] = @ + 1] ELSE lookups

\* A second caller waits for the fetch the first one began.
JoinFetch(q) ==
    /\ fetches' = {IF f.id = inflight THEN [f EXCEPT !.asking = @ \cup {q}] ELSE f :
                     f \in fetches}
    /\ UNCHANGED <<inflight, lookups>>

\* Mutant: a forced refresh does not look at the cooldown.
AskUnlessForced(q, force) ==
    IF cooling /\ ~force
    THEN Decide({q}, Freshest) /\ UNCHANGED <<fetches, inflight, lookups>>
    ELSE Wait /\ IF inflight # 0 THEN JoinFetch(q) ELSE Begin(q)

\* No valid snapshot may be used: the cooldown answers, or a fetch will.
Ask(q, force) ==
    IF cooling
    THEN Decide({q}, Freshest) /\ UNCHANGED <<fetches, inflight, lookups>>
    ELSE Wait /\ IF inflight # 0 THEN JoinFetch(q) ELSE Begin(q)

Pending(q) == \E f \in fetches : q \in f.asking

\* A caller content with the cache.
AskCached(q) ==
    /\ ~Pending(q)
    /\ IF Fresh THEN Decide({q}, Cached) /\ UNCHANGED <<fetches, inflight, lookups>>
                ELSE Ask(q, FALSE)
    /\ DropOld
    /\ UNCHANGED <<world, cooling, failures>>

\* A caller that wants the roles as they are now.
AskForced(q) ==
    /\ ~Pending(q)
    /\ Ask(q, TRUE)
    /\ cache' = IF cooling /\ ~Fresh THEN None ELSE cache
    /\ UNCHANGED <<world, cooling, failures>>

\* handleButtonResponse takes what is cached and never fetches.
Button(p) ==
    /\ Decide({[do |-> "button", of |-> p]}, Freshest)
    /\ DropOld
    /\ UNCHANGED <<world, cooling, fetches, inflight, failures, lookups>>

\* getGroupParticipantName, of someone no cache can name.
LookUpName(p) ==
    /\ p \in Nameless \ miss
    /\ ~Pending(Name(p))
    /\ Ask(Name(p), Fresh)
    /\ DropOld
    /\ UNCHANGED <<world, cooling, failures>>

----------------------------------------------------------------------------
(* The fetch.                                                               *)

\* WhatsApp puts together its answer.
Read(f) ==
    /\ f.seen = None
    /\ fetches' = (fetches \ {f}) \cup {[f EXCEPT !.seen = changes, !.roles = roles]}
    /\ acted' = {}
    /\ UNCHANGED <<world, cache, cooling, inflight, miss, kicks, failures, lookups>>

\* The first caller takes the fetch out of the map when it has settled.
Settled(f) == fetches' = fetches \ {f} /\ inflight' = 0

FetchDone(f) ==
    /\ f.seen # None
    /\ cache' = Stored(f)
    /\ cooling' = FALSE
    /\ Settled(f)
    /\ Decide(f.asking, f)
    /\ UNCHANGED <<world, failures, lookups>>

\* WhatsApp refuses, or the time is up: no more of it for thirty seconds.
FetchFails(f) ==
    /\ cooling' = TRUE
    /\ failures' = failures + 1
    /\ Settled(f)
    /\ Decide(f.asking, Freshest)
    /\ DropOld
    /\ UNCHANGED <<world, lookups>>

----------------------------------------------------------------------------
(* Time, WhatsApp and its notices.                                          *)

Expire ==
    /\ Fresh
    /\ cache' = [cache EXCEPT !.age = "expired"]
    /\ acted' = {}
    /\ UNCHANGED <<world, cooling, fetches, inflight, miss, kicks, failures, lookups>>

CooldownOver ==
    /\ cooling
    /\ cooling' = FALSE
    /\ failures' = 0
    /\ acted' = {}
    /\ UNCHANGED <<world, cache, fetches, inflight, miss, kicks, lookups>>

MissOver(p) ==
    /\ p \in miss
    /\ miss' = miss \ {p}
    /\ lookups' = [lookups EXCEPT ![p] = 0]
    /\ acted' = {}
    /\ UNCHANGED <<world, cache, cooling, fetches, inflight, kicks, failures>>

Changed(j, role) ==
    /\ changes < MaxChanges
    /\ roles' = [roles EXCEPT ![j] = role]
    /\ changes' = changes + 1
    /\ notices' = Append(notices, [nth |-> changes + 1,
                                   joins |-> roles[j] = "out" /\ role # "out"])
    /\ acted' = {}
    /\ UNCHANGED <<handled, cache, cooling, fetches, inflight, miss, failures, lookups>>

\* An admin promotes, demotes, adds or removes someone.
Change(j, role) ==
    /\ roles[j] # role
    /\ j = Bot => role # "out"
    /\ roles[j] = "out" => role = "member"
    /\ Changed(j, role)
    /\ UNCHANGED kicks

\* WhatsApp answers a removal: done, or refused since roles are not so.
KickAnswered(p) ==
    /\ p \in kicks
    /\ kicks' = kicks \ {p}
    /\ IF roles[Bot] = "admin" /\ roles[p] # "out"
       THEN Changed(p, "out")
       ELSE /\ acted' = {}
            /\ UNCHANGED <<world, cache, cooling, fetches, inflight, miss, failures, lookups>>

\* Mutant: only joins and departures empty the cache.
InvalidateOnMembership(n) == cache' = IF n.joins THEN None ELSE cache

\* invalidateGroupMetadata, for every notice.
Invalidate(n) == cache' = None

\* handleGroupParticipantsUpdate; a join worth telling fetches at once.
HandleNotice ==
    /\ notices # <<>>
    /\ notices' = Tail(notices)
    /\ handled' = Head(notices).nth
    /\ Invalidate(Head(notices))
    /\ UNCHANGED <<roles, changes, cooling, failures>>
    /\ LET lateFetches == {[f EXCEPT !.late = TRUE] : f \in fetches} IN
       \/ /\ Wait
          /\ fetches' = lateFetches
          /\ UNCHANGED <<inflight, lookups>>
       \/ /\ Head(notices).joins
          /\ Wait
          /\ IF cooling THEN fetches' = lateFetches /\ UNCHANGED inflight
             ELSE IF inflight # 0
             THEN /\ fetches' = {IF f.id = inflight THEN [f EXCEPT !.asking = @ \cup {Join}]
                                 ELSE f : f \in lateFetches}
                  /\ UNCHANGED inflight
             ELSE fetches' = lateFetches \cup {NewFetch(Join)} /\ inflight' = NewFetch(Join).id
          /\ UNCHANGED lookups

Init ==
    /\ roles \in [Jids -> {"member", "admin"}]
    /\ changes = 0 /\ notices = <<>> /\ handled = 0
    /\ cache = None /\ cooling = FALSE
    /\ fetches = {} /\ inflight = 0
    /\ miss = {} /\ kicks = {}
    /\ failures = 0 /\ lookups = [p \in Nameless |-> 0]
    /\ acted = {}

Next ==
    \/ \E p \in People : AskCached(Command(p)) \/ AskForced(Kick(p)) \/ Button(p)
    \/ AskCached(RunCommand)
    \/ \E p \in People : LookUpName(p)
    \/ \E f \in fetches : Read(f) \/ FetchDone(f) \/ FetchFails(f)
    \/ Expire \/ CooldownOver
    \/ \E p \in People : MissOver(p) \/ KickAnswered(p)
    \/ \E j \in Jids, role \in {"out", "member", "admin"} : Change(j, role)
    \/ HandleNotice

Spec == Init /\ [][Next]_vars

----------------------------------------------------------------------------
(* Properties.                                                              *)

Roles == {"out", "member", "admin"}

TypeOK ==
    /\ roles \in [Jids -> Roles]
    /\ changes \in 0 .. MaxChanges /\ handled \in 0 .. changes
    /\ cache # None => cache.roles \in [Jids -> Roles] /\ cache.age \in {"fresh", "expired"}
    /\ cooling \in BOOLEAN
    /\ \A f \in fetches : f.seen # None => f.roles \in [Jids -> Roles]
    /\ miss \subseteq People /\ kicks \subseteq People

\* A kick, a command or a button is let through only by a snapshot that holds
\* every promotion and demotion the gateway has been told of, unless the news
\* came while that very snapshot was being fetched (invalidateGroupMetadata
\* and the three ways around the cache in groupContext.ts).
JudgedByTheNews == \A x \in acted : x.seen >= handled \/ x.late

\* WhatsApp is asked sparingly: it refuses a group's metadata at most once per
\* cooldown, however many handlers ask and whether they force a refresh (the
\* in-flight map and the cooldown of getGroupContext, against the rate-overlimit
\* storm), and someone nobody can name costs at most one fetch per miss window
\* (groupParticipantNameMissUntil in getGroupParticipantName).
AskedSparingly ==
    /\ failures <= 1
    /\ \A p \in Nameless : lookups[p] <= 1
=============================================================================
