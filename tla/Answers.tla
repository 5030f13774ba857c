------------------------------- MODULE Answers -------------------------------
(***************************************************************************)
(* How one burst of a group chat becomes an answer or silence: the router  *)
(* LLM1 (llm/llm1.py) decides whether the bot speaks, the writer LLM2      *)
(* (llm/llm2.py) writes, each with a primary and a fallback provider, and  *)
(* the idle counter makes the bot speak after a long silence               *)
(* (agent/idle_trigger.py and its callers in agent/batch_processor.py).    *)
(*                                                                         *)
(* A provider's answer is what the caller tells apart: for the router yes, *)
(* no, an expression (an emoji or a sticker), one of the failures that go  *)
(* on to the next target, or an answer on which call_llm1 itself raises;   *)
(* for the writer a reply with or without a usable action, a time-out,     *)
(* another error, or a reply on which the validator raises.                *)
(***************************************************************************)
EXTENDS Naturals, Sequences

CONSTANTS
    Offers,      \* the target lists a provider configuration can give
    NoTargets,   \* the empty list: no endpoint for the router
    RetryMax,    \* retries of a call that timed out
    Limits,      \* idle settings of the chat, [min, max]
    NoLimits,    \* the idle trigger is off
    MaxBurst,    \* messages of a burst, and those the bot may be silent for
    MaxSilent,   \* when the next begins (model bounds)
    MaxChanges   \* changes of the operator (a model bound)

\* /idle takes min <= max, both positive (src/wa/commands/idle.ts).
ASSUME AnswersAssumption ==
    /\ \A o \in Offers : Len(o) \in Nat
    /\ NoTargets \in Offers
    /\ \A l \in Limits : l.min \in Nat /\ l.max \in Nat \ {0} /\ l.min <= l.max
    /\ MaxBurst \in Nat

VARIABLES
    offered,     \* the targets configured now, by stage
    limits,      \* the idle setting now
    changes,
    stage,       \* "quiet", "route" or "write"
    burst,       \* messages of the burst that call the bot
    media,       \* the prompt shows media
    targets, at, \* the targets of the call under way, and the one being asked
    mode,        \* "multimodal", "text" or "text_fallback"
    attempt,
    asked,       \* the calls of this stage, as <<target, mode, outcome>>
    silent,      \* idle_msg_count
    end          \* how the latest turn ended

operator == <<offered, limits, changes>>
call     == <<targets, at, mode, attempt, asked>>
vars     == <<operator, stage, burst, media, call, silent, end>>

Init ==
    /\ offered \in [route : Offers, write : Offers \ {NoTargets}]
    /\ limits \in Limits \cup {NoLimits}
    /\ changes = 0
    /\ stage = "quiet"
    /\ burst = 0
    /\ media = FALSE
    /\ targets = NoTargets /\ at = 0
    /\ mode = "text"
    /\ attempt = 0
    /\ asked = {}
    /\ silent = 0
    /\ end = "none"

-----------------------------------------------------------------------------
(* The idle trigger.  It may fire from min on and must at max.              *)

Fires(n)   == limits # NoLimits /\ n >= limits.min
MayWait(n) == limits # NoLimits => n < limits.min \/ n < limits.max

-----------------------------------------------------------------------------
(* One call of a model.                                                     *)

HasNext == at < Len(targets)

\* _llm2_targets has a primary always, _llm1_targets only with an endpoint.
Write ==
    /\ stage' = "write"
    /\ targets' = offered.write /\ at' = 1
    /\ mode' = IF media THEN "multimodal" ELSE "text"
    /\ attempt' = 1
    /\ asked' = {}
    /\ UNCHANGED <<operator, burst, media, end>>

\* The same call to the next target.
Next_target(outcome) ==
    /\ HasNext
    /\ at' = at + 1
    /\ mode' = IF media /\ stage = "write" THEN "multimodal" ELSE "text"
    /\ attempt' = 1
    /\ asked' = asked \cup {<<at, mode, outcome>>}
    /\ UNCHANGED <<operator, stage, burst, media, targets, silent, end>>

\* The turn is over; the calls of its last stage stay to be read.
Over(how, outcome) ==
    /\ stage' = "quiet"
    /\ end' = how
    /\ asked' = asked \cup {<<at, mode, outcome>>}
    /\ UNCHANGED <<operator, burst, media, targets, at, mode, attempt>>

\* A burst reaches the model: LLM1 is asked unless no endpoint is configured.
Begin ==
    /\ stage = "quiet" /\ silent <= MaxSilent
    /\ burst' \in 1..MaxBurst
    /\ media' \in BOOLEAN
    /\ IF offered.route = NoTargets
       THEN /\ stage' = "write"
            /\ targets' = offered.write
            /\ mode' = IF media' THEN "multimodal" ELSE "text"
       ELSE /\ stage' = "route"
            /\ targets' = offered.route
            /\ mode' = "text"
    /\ at' = 1 /\ attempt' = 1 /\ asked' = {}
    /\ end' = "none"
    /\ UNCHANGED <<operator, silent>>

\* The router's decision that the bot should not answer.
Skip(how, outcome) ==
    \/ /\ MayWait(silent + burst)
       /\ silent' = silent + burst
       /\ Over(how, outcome)
    \/ /\ Fires(silent + burst)
       /\ silent' = 0
       /\ Write

-----------------------------------------------------------------------------
(* LLM1.                                                                    *)

Failures == {"unreachable", "no_tool", "empty_tool", "invalid_tool"}

\* llm_should_response, or the same arguments as JSON text.
RouterYes == stage = "route" /\ Write /\ UNCHANGED silent
RouterNo  == stage = "route" /\ Skip("skipped", "no")

\* llm_react or llm_sticker: sent at once, without LLM2.
RouterExpresses ==
    /\ stage = "route"
    /\ silent' = 0
    /\ Over("expressed", "express")

RouterFails(f) ==
    /\ stage = "route"
    /\ \/ Next_target(f)
       \/ ~HasNext /\ Skip("failed", f)

\* An expression whose confidence is above 100 or whose reason has one letter:
\* the decision is built outside the try, and its error leaves call_llm1.
RouterRaises ==
    /\ stage = "route"
    /\ Over("broken", "raised")
    /\ UNCHANGED silent

-----------------------------------------------------------------------------
(* LLM2.                                                                    *)

\* Mutant: the trigger is not asked after a failure.
WriterSilentOn(outcome) ==
    /\ ~HasNext
    /\ silent' = silent + burst
    /\ Over("unanswered", outcome)

\* No target produced a reply.
WriterSilent(outcome) ==
    /\ ~HasNext
    /\ \/ MayWait(silent + burst) /\ silent' = silent + burst
       \/ Fires(silent + burst) /\ silent' = 0
    /\ Over("unanswered", outcome)

WriterFailed(outcome) == Next_target(outcome) \/ WriterSilent(outcome)

WriterReplies ==
    /\ stage = "write"
    /\ silent' = 0
    /\ Over("answered", "usable")

\* Mutant: an unusable reply is returned whichever target gave it.
WriterUnusableAtOnce ==
    /\ stage = "write"
    /\ silent' = 0 /\ Over("useless", "unusable")

\* A reply without a usable action goes to the next target; the last one's is
\* returned, and the batch ends without an action.
WriterUnusable ==
    /\ stage = "write"
    /\ \/ Next_target("unusable")
       \/ ~HasNext /\ silent' = 0 /\ Over("useless", "unusable")

\* Only a time-out is tried again, after a pause that grows with the attempts.
WriterTimesOut ==
    /\ stage = "write"
    /\ IF attempt <= RetryMax
       THEN /\ attempt' = attempt + 1
            /\ UNCHANGED <<operator, stage, burst, media, targets, at, mode,
                           asked, silent, end>>
       ELSE WriterFailed("timeout")

\* A prompt with media that is refused is asked again without them.
WriterErrs ==
    /\ stage = "write"
    /\ IF mode = "multimodal"
       THEN /\ mode' = "text_fallback"
            /\ attempt' = 1
            /\ asked' = asked \cup {<<at, mode, "error">>}
            /\ UNCHANGED <<operator, stage, burst, media, targets, at, silent,
                           end>>
       ELSE WriterFailed("error")

\* A command anchor that is a number: strip fails inside the validator, and the
\* error leaves generate_reply.
WriterRaises ==
    /\ stage = "write"
    /\ Over("broken", "raised")
    /\ UNCHANGED silent

-----------------------------------------------------------------------------
(* The operator, at any time: provider settings, /idle, /reset.             *)

Configure(s, offer) ==
    /\ changes < MaxChanges
    /\ s = "write" => offer # NoTargets
    /\ offered' = [offered EXCEPT ![s] = offer]
    /\ changes' = changes + 1
    /\ UNCHANGED <<limits, stage, burst, media, call, silent, end>>

SetIdle(l) ==
    /\ changes < MaxChanges
    /\ limits' = l
    /\ changes' = changes + 1
    /\ UNCHANGED <<offered, stage, burst, media, call, silent, end>>

Reset ==
    /\ silent' = 0
    /\ UNCHANGED <<operator, stage, burst, media, call, end>>

Router == RouterYes \/ RouterNo \/ RouterExpresses \/ RouterRaises
          \/ \E f \in Failures : RouterFails(f)
Writer == WriterReplies \/ WriterUnusable \/ WriterTimesOut \/ WriterErrs
          \/ WriterRaises

Next ==
    \/ Begin \/ Router \/ Writer \/ Reset
    \/ \E s \in {"route", "write"}, offer \in Offers : Configure(s, offer)
    \/ \E l \in Limits \cup {NoLimits} : SetIdle(l)

Spec == Init /\ [][Next]_vars

-----------------------------------------------------------------------------
TypeOK ==
    /\ offered \in [route : Offers, write : Offers \ {NoTargets}]
    /\ limits \in Limits \cup {NoLimits}
    /\ changes \in 0..MaxChanges
    /\ stage \in {"quiet", "route", "write"}
    /\ burst \in 0..MaxBurst
    /\ media \in BOOLEAN
    /\ targets \in Offers
    /\ at \in Nat /\ (stage # "quiet" => at \in 1..Len(targets))
    /\ mode \in {"multimodal", "text", "text_fallback"}
    /\ attempt \in 0..RetryMax + 1
    /\ silent \in 0..MaxSilent + MaxBurst
    /\ end \in {"none", "skipped", "failed", "expressed", "answered", "useless",
                "unanswered", "broken"}

\* The bot gives up on a burst, without anyone having decided so, only after
\* every target configured when the stage began was asked and failed, and a
\* target that refused the media was asked without them.  The exception is an
\* answer on which the code itself raises (llm1.py:519, actions.py:428): it ends
\* the turn, and the targets after it are never asked.
GivesUpLast ==
    end \in {"failed", "unanswered", "useless", "broken"} =>
        /\ \A i \in 1..at :
             \E c \in asked :
                /\ c[1] = i
                /\ c[3] # "usable"
                /\ c[2] = "multimodal" => c[3] \in {"timeout", "unusable", "raised"}
        /\ at < Len(targets) => <<at, mode, "raised">> \in asked

\* "If the primary endpoint fails (timeout, error, invalid response), the module
\* tries the fallback endpoint" (llm1.py:27-28); "An invalid result is treated
\* like a provider failure so the next target gets a chance" (llm2.py:646-648).
InvalidIsAFailure ==
    end \in {"failed", "unanswered", "useless", "broken"} => at >= Len(targets)

\* When a turn ends, and the reply did not break the code, the bot has not
\* been silent for as many messages as its idle setting allows.
SilenceIsBounded ==
    [][ stage # "quiet" /\ stage' = "quiet" /\ end' # "broken"
            /\ limits # NoLimits
        => silent' < limits.max ]_vars
=============================================================================
