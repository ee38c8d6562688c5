---------------------------- MODULE ChatLimiter -----------------------------
(***************************************************************************)
(* POST /digest/chat: apps/api/routes/digest_chat.py.                      *)
(*                                                                         *)
(* A request passes the in-process rate limit before anything else, then   *)
(* its context is assembled from the database, then the answer streams     *)
(* from OpenRouter.  The limit is a queue of wall-clock stamps (time.time),*)
(* and the wall clock may be set forward or back at any time.  Set back,   *)
(* it keeps stamps longer; set forward, it drops them early, and more      *)
(* requests pass than in the same time on a steady clock.                  *)
(***************************************************************************)
EXTENDS Integers, Sequences, FiniteSets

CONSTANTS
    Chats,          \* browsers
    RateMax,        \* _RATE_MAX
    RateWindow,     \* _RATE_WINDOW, in ticks
    LastMoment,     \* bound on the time that passes and on the clock's setting back
    MaxLeaps        \* bound on the clock's setting forward

ASSUME ChatAssumption ==
    /\ RateMax \in Nat \ {0} /\ RateWindow \in Nat
    /\ LastMoment \in Nat /\ MaxLeaps \in Nat

VARIABLES
    moment,         \* time since the process started
    wall,           \* time.time()
    recentCalls,    \* _recent_calls
    chat,           \* chat[c]: where c's request is
    leapt,          \* history: how far the wall clock has been set forward in all
    allowed         \* history: moment and leapt of each request let through

chatVars == <<moment, wall, recentCalls, chat, leapt, allowed>>

-----------------------------------------------------------------------------

ChatSteps == {"idle", "assembling", "streaming"}

ChatTypeOK ==
    /\ moment \in 0 .. LastMoment
    /\ wall \in -LastMoment .. LastMoment + MaxLeaps
    /\ leapt \in 0 .. MaxLeaps
    /\ recentCalls \in Seq(Int) /\ Len(recentCalls) <= RateMax
    /\ chat \in [Chats -> ChatSteps]
    /\ allowed \in Seq([at : 0 .. LastMoment, leapt : 0 .. MaxLeaps])

ChatInit ==
    /\ moment = 0 /\ wall = 0 /\ leapt = 0
    /\ recentCalls = <<>>
    /\ chat = [c \in Chats |-> "idle"]
    /\ allowed = <<>>

ClockTicks ==
    /\ moment < LastMoment
    /\ moment' = moment + 1
    /\ wall' = wall + 1
    /\ UNCHANGED <<recentCalls, chat, leapt, allowed>>

ClockSetBack ==
    /\ wall > -LastMoment
    /\ wall' = wall - 1
    /\ UNCHANGED <<moment, recentCalls, chat, leapt, allowed>>

\* Also the correction after a setting back.  A larger step is several of these.
ClockSetForward ==
    /\ leapt < MaxLeaps
    /\ wall' = wall + 1
    /\ leapt' = leapt + 1
    /\ UNCHANGED <<moment, recentCalls, chat, allowed>>

-----------------------------------------------------------------------------

\* Faulty variant: a call is forgotten when it is exactly the window old.
StaleEarly(stamp) == wall - stamp >= RateWindow

Stale(stamp) == wall - stamp > RateWindow

\* The loop stops at the first stamp that is not stale.
Kept == LET fresh == {i \in DOMAIN recentCalls : ~Stale(recentCalls[i])}
        IN  IF fresh = {} THEN <<>>
            ELSE SubSeq(recentCalls, CHOOSE i \in fresh : \A j \in fresh : i <= j,
                        Len(recentCalls))

\* _rate_limit, without an await in it.  A request it lets through counts even
\* if the key or the messages are then found missing.
Limit(c) ==
    IF Len(Kept) >= RateMax
    THEN recentCalls' = Kept /\ UNCHANGED <<chat, allowed>>
    ELSE /\ recentCalls' = Append(Kept, wall)
         /\ allowed' = Append(allowed, [at |-> moment, leapt |-> leapt])
         /\ \E step \in {"idle", "assembling"} : chat' = [chat EXCEPT ![c] = step]

Post(c) ==
    /\ chat[c] = "idle"
    /\ Limit(c)
    /\ UNCHANGED <<moment, wall, leapt>>

\* _assemble_context, or its failure; the database session is closed after it.
Assemble(c) ==
    /\ chat[c] = "assembling"
    /\ \E step \in {"idle", "streaming"} : chat' = [chat EXCEPT ![c] = step]
    /\ UNCHANGED <<moment, wall, recentCalls, leapt, allowed>>

\* The stream ends with [DONE], after an error or without one.
EndStream(c) ==
    /\ chat[c] = "streaming"
    /\ chat' = [chat EXCEPT ![c] = "idle"]
    /\ UNCHANGED <<moment, wall, recentCalls, leapt, allowed>>

ChatNext ==
    \/ ClockTicks
    \/ ClockSetBack
    \/ ClockSetForward
    \/ \E c \in Chats : Post(c) \/ Assemble(c) \/ EndStream(c)

ChatSpec == ChatInit /\ [][ChatNext]_chatVars

-----------------------------------------------------------------------------

\* How far the wall clock can have advanced between two requests: by the time that
\* passed and by what it was set forward meanwhile.
Advance(i, j) == (allowed[j].at - allowed[i].at) + (allowed[j].leapt - allowed[i].leapt)

\* "Caps runaway OpenRouter spend": from any request on, RateMax pass, itself
\* included, until the window is over.  Setting the clock back never lets one more
\* through; setting it forward shortens the window by as much as it was set, and by
\* no more, so the cap holds in any window the clock was not set forward in.
SpendCapped ==
    \A i \in DOMAIN allowed :
        Cardinality({j \in DOMAIN allowed : j >= i /\ Advance(i, j) <= RateWindow})
            <= RateMax

=============================================================================
