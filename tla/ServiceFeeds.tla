---------------------------- MODULE ServiceFeeds ----------------------------
(***************************************************************************)
(* The feeds of the service, for one chain: check_network_feeds() of       *)
(* service.ts, which alarms and logins start, the wake instruction of      *)
(* service-router-instruction.ts, which windows send, and logouts.  They   *)
(* share the list a_feeds; the first works under the lock "net:feeds", the *)
(* second under the lock of a host.  A feed is a NetworkFeed of            *)
(* service-feed.ts with one socket.                                        *)
(***************************************************************************)
EXTENDS Naturals, Sequences, FiniteSets, SequencesExt

CONSTANTS Checks,     \* calls of check_network_feeds()
          Wakes,      \* wake instructions
          Feeds,      \* instances of NetworkFeed
          MaxFaults,  \* bound on lost and refused connections, timeouts, failed calls
          MaxLogouts, \* bound on logouts
          None

ASSUME ServiceFeedsAssumption == Checks \cap Wakes = {} /\ None \notin Checks \cup Wakes \cup Feeds

VARIABLES
  a_feeds,    \* the feeds the service knows of
  h_feed,     \* H_FEEDS, the feed of the chain that createAll() made last
  ws,         \* the socket of each feed
  destroyed,  \* feeds that have dropped their socket
  marked,     \* feeds that count the account as followed (accountsFollowing)
  followed,   \* those that have subscribed to its events
  entries,    \* checks that have found the account with no feed so far
  pc, mine, new,  \* how far each call has come, the feed it is at, the one it creates
  i_feed,     \* its position in a_feeds
  lockFeeds, lockHost,
  user,       \* "in", "out", or "leaving" until the service hears of the logout
  faults, logouts

feeds == <<a_feeds, h_feed, ws, destroyed, marked, followed>>
locks == <<lockFeeds, lockHost>>
calls == <<pc, mine, new, i_feed, entries>>
bounds == <<faults, logouts>>
vars == <<feeds, locks, calls, user, bounds>>

Calls == Checks \cup Wakes

\* "lost": closed, and restarting; "restarted": open again; both are marked as
\* closed by the caller (_b_closed), as is "dead".
Sockets == {"none", "opening", "live", "lost", "restarted", "dead"}
Steps == {"idle", "asked", "unlocked", "providers", "next", "lock", "wake",
          "opening", "follow", "accounts", "done", "failed", "hung"}

\* Types, and only a call that has the lock works on the feeds.
TypeOK ==
  /\ a_feeds \in Seq(Feeds) /\ IsInjective(a_feeds)
  /\ h_feed \in Feeds \cup {None}
  /\ ws \in [Feeds -> Sockets] /\ destroyed \subseteq Feeds
  /\ marked \subseteq Feeds /\ followed \subseteq Feeds /\ entries \subseteq Checks
  /\ pc \in [Calls -> Steps] /\ i_feed \in [Calls -> Nat]
  /\ mine \in [Calls -> Feeds \cup {None}] /\ new \in [Calls -> Feeds \cup {None}]
  /\ lockFeeds \in Checks \cup {None} /\ lockHost \in Wakes \cup {None}
  /\ user \in {"in", "leaving", "out"} /\ faults \in 0..MaxFaults /\ logouts \in 0..MaxLogouts
  /\ \A c \in Checks : pc[c] \notin {"idle", "asked", "done", "failed"} <=> lockFeeds = c
  /\ \A w \in Wakes : pc[w] \in {"wake", "opening", "follow", "hung"} <=> lockHost = w

Init ==
  /\ a_feeds = <<>> /\ h_feed = None
  /\ ws = [f \in Feeds |-> "none"] /\ destroyed = {} /\ marked = {} /\ followed = {}
  /\ pc = [p \in Calls |-> "idle"] /\ i_feed = [p \in Calls |-> 0] /\ entries = {}
  /\ mine = [p \in Calls |-> None] /\ new = [p \in Calls |-> None]
  /\ lockFeeds = None /\ lockHost = None
  /\ user = "in" /\ faults = 0 /\ logouts = 0

Goes(p, from, to) == pc[p] = from /\ pc' = [pc EXCEPT ![p] = to]

\* A call ends, or goes on to the next feed; a check keeps its lock until it ends.
Release(p, to) ==
  /\ pc' = [pc EXCEPT ![p] = to]
  /\ lockHost' = IF p = lockHost THEN None ELSE lockHost
  /\ lockFeeds' = IF p = lockFeeds /\ to # "next" THEN None ELSE lockFeeds
  /\ i_feed' = IF to = "next" THEN i_feed ELSE [i_feed EXCEPT ![p] = 0]
  /\ entries' = IF to = "next" THEN entries ELSE entries \ {p}
  /\ mine' = [mine EXCEPT ![p] = None] /\ new' = [new EXCEPT ![p] = None]

Fault == faults < MaxFaults /\ faults' = faults + 1
-----------------------------------------------------------------------------
(* NetworkFeed: create(), destroy(). *)

\* Sockets after fs were destroyed: destroy() of a socket does nothing once it
\* was closed, even if it was restarted since.
Closed(fs) == [f \in Feeds |-> IF f \in fs /\ ws[f] \in {"opening", "live"} THEN "dead" ELSE ws[f]]

\* A feed nobody has made, or whom nobody can reach any more.
Fresh(f) ==
  \/ ws[f] = "none"
  \/ /\ ws[f] = "dead" /\ h_feed # f
     /\ \A i \in 1..Len(a_feeds) : a_feeds[i] # f
     /\ \A p \in Calls : f \notin {mine[p], new[p]}

\* The feeds in old are destroyed; a new one opens its socket.
Replace(p, old) ==
  LET f == CHOOSE g \in Feeds : Fresh(g) IN
  /\ \E g \in Feeds : Fresh(g)
  /\ ws' = [Closed(old) EXCEPT ![f] = "opening"]
  /\ destroyed' = (destroyed \cup old) \ {f}
  /\ marked' = marked \ {f} /\ followed' = followed \ {f}
  /\ new' = [new EXCEPT ![p] = f]
  /\ pc' = [pc EXCEPT ![p] = "opening"]

\* The socket of a new feed opens; or open() rejects, and so does the call.
Opened(p) ==
  /\ Goes(p, "opening", "follow")
  /\ ws' = [ws EXCEPT ![new[p]] = "live"]
  /\ UNCHANGED <<a_feeds, h_feed, destroyed, marked, followed, locks, mine, new, i_feed, entries, user, bounds>>

Refused(p) ==
  /\ pc[p] = "opening" /\ Fault
  /\ ws' = [ws EXCEPT ![new[p]] = "dead"]
  /\ Release(p, "failed")
  /\ UNCHANGED <<a_feeds, h_feed, destroyed, marked, followed, user, logouts>>

\* followAccount(): the feed counts the account as followed and subscribes to its
\* events, or does not: autoSubscribe() swallows the error of a node, and that of a
\* connection that is not open.
Follow(f) ==
  /\ marked' = marked \cup {f}
  /\ \/ followed' = followed \cup {f} /\ UNCHANGED faults
     \/ ws[f] # "live" /\ UNCHANGED <<followed, faults>>
     \/ Fault /\ UNCHANGED followed

\* create() has followed blocks and accounts, or swallows what was thrown before it
\* came to the accounts.  The call lists the feed, except for a check that has
\* recreated one.
Followed(p) ==
  /\ pc[p] = "follow"
  /\ Follow(new[p]) \/ (Fault /\ UNCHANGED <<marked, followed>>)
  /\ a_feeds' = IF p \in Checks /\ mine[p] # None THEN a_feeds ELSE Append(a_feeds, new[p])
  /\ h_feed' = IF mine[p] = None THEN new[p] ELSE h_feed
  /\ Release(p, IF mine[p] = None THEN "done" ELSE "next")
  /\ UNCHANGED <<ws, destroyed, user, logouts>>

\* The connection was lost before a subscription was confirmed: its promise never
\* settles.
Hang(p) ==
  /\ Goes(p, "follow", "hung")
  /\ ws[new[p]] # "live"
  /\ UNCHANGED <<feeds, locks, mine, new, i_feed, entries, user, bounds>>

HangAgain(c) ==
  /\ Goes(c, "accounts", "hung")
  /\ i_feed[c] < Len(a_feeds) /\ ws[a_feeds[i_feed[c] + 1]] # "live"
  /\ UNCHANGED <<feeds, locks, mine, new, i_feed, entries, user, bounds>>
-----------------------------------------------------------------------------
(* check_network_feeds(). *)

\* An alarm, the start of the service, a login.
Ask(p) ==
  /\ Goes(p, "idle", "asked")
  /\ UNCHANGED <<feeds, locks, mine, new, i_feed, entries, user, bounds>>

\* Mutation: the lock is not waited for.
CheckAtOnce(c) ==
  /\ IF user = "in"
       THEN Goes(c, "asked", "unlocked") /\ lockFeeds' = c
       ELSE Goes(c, "asked", "done") /\ UNCHANGED lockFeeds
  /\ UNCHANGED <<feeds, lockHost, mine, new, i_feed, entries, user, bounds>>

\* The lock, and Vault.isUnlocked().
Check(c) ==
  /\ lockFeeds = None
  /\ IF user = "in"
       THEN Goes(c, "asked", "unlocked") /\ lockFeeds' = c
       ELSE Goes(c, "asked", "done") /\ UNCHANGED lockFeeds
  /\ UNCHANGED <<feeds, lockHost, mine, new, i_feed, entries, user, bounds>>

\* If there are feeds, it reads the accounts.
HasFeeds(c) ==
  /\ Goes(c, "unlocked", IF a_feeds = <<>> THEN "providers" ELSE "next")
  /\ entries' = IF a_feeds = <<>> THEN entries ELSE entries \cup {c}
  /\ UNCHANGED <<feeds, locks, mine, new, i_feed, user, bounds>>

\* createAll(), with a provider that is online, or without one; or a store rejects.
CreateAll(c) ==
  /\ pc[c] = "providers"
  /\ Replace(c, {h_feed} \ {None})
  /\ UNCHANGED <<a_feeds, h_feed, locks, mine, i_feed, entries, user, bounds>>

Offline(c) ==
  /\ pc[c] \in {"unlocked", "providers"} /\ Fault
  /\ Release(c, "failed")
  /\ UNCHANGED <<feeds, user, logouts>>

\* Call p is at the i-th feed; if the feed follows the account, that is not new.
AtFeed(p, i) ==
  /\ i_feed' = [i_feed EXCEPT ![p] = i]
  /\ mine' = [mine EXCEPT ![p] = a_feeds[i]]
  /\ entries' = IF a_feeds[i] \in marked THEN entries \ {p} ELSE entries
  /\ pc' = [pc EXCEPT ![p] = IF p \in Checks THEN "wake" ELSE "lock"]
  /\ UNCHANGED <<locks, new>>

\* Mutation: accounts are not looked at again.
AtEndDone(p) == Release(p, "done")

\* The list is at its end: a check has an account to follow, or the call is done.
AtEnd(p) ==
  \/ /\ p \in entries
     /\ i_feed' = [i_feed EXCEPT ![p] = 0]
     /\ pc' = [pc EXCEPT ![p] = "accounts"]
     /\ UNCHANGED <<locks, mine, new, entries>>
  \/ p \notin entries /\ Release(p, "done")

\* Mutation: the list is started over, since it may have changed.
NextFeedFirst(p) ==
  /\ pc[p] = "next"
  /\ IF a_feeds # <<>> THEN AtFeed(p, 1) ELSE AtEnd(p)
  /\ UNCHANGED <<feeds, user, bounds>>

\* The next feed in a_feeds, which may have changed since the last one; a wake
\* instruction waits for the lock of its host.
NextFeed(p) ==
  /\ pc[p] = "next"
  /\ IF i_feed[p] < Len(a_feeds) THEN AtFeed(p, i_feed[p] + 1) ELSE AtEnd(p)
  /\ UNCHANGED <<feeds, user, bounds>>

\* The account that no feed follows: the next feed does, except for one that has no
\* socket, which throws.  An error of synchronize() ends the check, too.
FollowNew(c) ==
  LET i == i_feed[c] + 1 IN
  /\ pc[c] = "accounts"
  /\ UNCHANGED <<a_feeds, h_feed, ws, destroyed, user, logouts>>
  /\ \/ /\ i > Len(a_feeds)
        /\ Release(c, "done") /\ UNCHANGED <<marked, followed, faults>>
     \/ /\ i <= Len(a_feeds) /\ a_feeds[i] \in destroyed
        /\ Release(c, "failed") /\ UNCHANGED <<marked, followed, faults>>
     \/ /\ i <= Len(a_feeds) /\ a_feeds[i] \notin destroyed
        /\ Follow(a_feeds[i])
        /\ \/ i_feed' = [i_feed EXCEPT ![c] = i] /\ UNCHANGED <<pc, locks, mine, new, entries>>
           \/ faults' # faults /\ Release(c, "failed")

\* Mutation: a socket that was lost counts as alive.
AliveUnlessDestroyed(f) == f \notin destroyed

\* wake() of a feed: its socket answers; or it was closed or destroyed, which
\* throws, or takes too long.
Alive(f) == ws[f] = "live" /\ f \notin destroyed

Awake(p) ==
  /\ pc[p] = "wake" /\ Alive(mine[p])
  /\ Release(p, "next")
  /\ UNCHANGED <<feeds, user, bounds>>

Recreate(p) ==
  /\ pc[p] = "wake"
  /\ \/ ~Alive(mine[p]) /\ UNCHANGED faults
     \/ Alive(mine[p]) /\ Fault
  /\ Replace(p, {mine[p]})
  /\ a_feeds' = IF p \in Checks THEN a_feeds ELSE RemoveFirst(a_feeds, mine[p])
  /\ UNCHANGED <<h_feed, locks, mine, i_feed, entries, user, logouts>>
-----------------------------------------------------------------------------
(* The wake instruction; logins and logouts. *)

Wake(w) ==
  /\ Goes(w, "asked", "next")
  /\ UNCHANGED <<feeds, locks, mine, new, i_feed, entries, user, bounds>>

WakeLock(w) ==
  /\ lockHost = None /\ lockHost' = w
  /\ Goes(w, "lock", "wake")
  /\ UNCHANGED <<feeds, lockFeeds, mine, new, i_feed, entries, user, bounds>>

Logout ==
  /\ user = "in" /\ user' = "leaving"
  /\ logouts < MaxLogouts /\ logouts' = logouts + 1
  /\ UNCHANGED <<feeds, locks, calls, faults>>

LogoutHeard ==
  LET listed == {a_feeds[i] : i \in 1..Len(a_feeds)} IN
  /\ user = "leaving" /\ user' = "out"
  /\ ws' = Closed(listed)
  /\ destroyed' = destroyed \cup listed
  /\ UNCHANGED <<a_feeds, h_feed, marked, followed, locks, calls, bounds>>

\* The service hears of a login and checks the feeds.
Login(c) ==
  /\ user = "out" /\ user' = "in"
  /\ Goes(c, "idle", "asked")
  /\ UNCHANGED <<feeds, locks, mine, new, i_feed, entries, bounds>>
-----------------------------------------------------------------------------
(* The sockets. *)

\* A connection is lost, and the socket restarts; it says so only once.
Lose(f) ==
  /\ ws[f] \in {"live", "restarted"} /\ Fault
  /\ ws' = [ws EXCEPT ![f] = IF @ = "live" THEN "lost" ELSE "dead"]
  /\ UNCHANGED <<a_feeds, h_feed, destroyed, marked, followed, locks, calls, user, logouts>>

Restarted(f) ==
  /\ ws[f] = "lost"
  /\ \/ ws' = [ws EXCEPT ![f] = "restarted"] /\ UNCHANGED faults
     \/ ws' = [ws EXCEPT ![f] = "dead"] /\ Fault
  /\ UNCHANGED <<a_feeds, h_feed, destroyed, marked, followed, locks, calls, user, logouts>>

Step(p) ==
  \/ Opened(p) \/ Followed(p) \/ Hang(p)
  \/ p \in Checks /\ (Check(p) \/ HasFeeds(p) \/ CreateAll(p) \/ FollowNew(p) \/ HangAgain(p))
  \/ NextFeed(p) \/ Awake(p) \/ Recreate(p)
  \/ p \in Wakes /\ (Wake(p) \/ WakeLock(p))

\* Nothing is left to do.
Quiet == \A p \in Calls : pc[p] \in {"idle", "done", "failed"}

Next ==
  \/ \E p \in Calls : Step(p) \/ Ask(p) \/ Refused(p)
  \/ \E c \in Checks : Offline(c) \/ Login(c)
  \/ Logout \/ LogoutHeard
  \/ \E f \in Feeds : Lose(f) \/ Restarted(f)

Spec == Init /\ [][Next]_vars

\* Answers come or calls fail, a lock goes to all who wait for it in turn, and the
\* message of a logout arrives.
FairSpec ==
  /\ Spec
  /\ \A p \in Calls : SF_vars(Step(p))
  /\ \A f \in Feeds : WF_vars(Restarted(f))
  /\ WF_vars(LogoutHeard)
-----------------------------------------------------------------------------
\* Feeds that hear of what the accounts do.
Hearing == {f \in followed : ws[f] \in {"live", "restarted"}}

Hung == \E p \in Calls : pc[p] = "hung"

\* A feed that wakes well, and counts an account as followed whose events it has not
\* subscribed to.
Deaf == \E i \in 1..Len(a_feeds) : Alive(a_feeds[i]) /\ a_feeds[i] \in marked \ followed

\* Once connections and nodes hold, a check brings the wallet to hear of its accounts
\* while the user is logged in, whatever was lost or failed before and whoever else
\* replaces feeds at the time, unless a call hangs, or a feed has swallowed that a
\* subscription failed: then its errors show nowhere (check_network_feeds()).
Heard == \A c \in Checks :
  pc[c] = "asked" /\ faults = MaxFaults ~> Hearing # {} \/ user # "in" \/ Hung \/ Deaf

\* Every call ends, although calls wait for each other and go through a list that
\* they extend, unless one hangs.
CallsEnd == \A p \in Calls : pc[p] = "asked" ~> pc[p] \in {"done", "failed"} \/ Hung
=============================================================================
