---------------------------- MODULE EPollPoller -----------------------------
(***************************************************************************)
(* The EPollPollers of several loops, each used by its own loop's thread   *)
(* alone: which channels are registered, the table from file descriptors   *)
(* to channels, and the list epoll_wait fills. What the kernel watches is  *)
(* what index_ says, kAdded; a closed descriptor leaves it by itself.      *)
(***************************************************************************)
EXTENDS Naturals, FiniteSets

CONSTANTS
  NoChannel,            \* stands for an absent entry of channels_
  kInitEventListSize    \* the length of the event list at first

ASSUME EventListAssumption == kInitEventListSize \in Nat \ {0}

VARIABLES
  index,          \* index_ of each channel
  channels_,      \* channels_ of each poller: the channel of a descriptor
  eventListSize   \* events_.size() of each poller

pollerVars == <<index, channels_, eventListSize>>

PollerInit(pollers, chans, fds) ==
  /\ index = [ch \in chans |-> "kNew"]
  /\ channels_ = [p \in pollers |-> [fd \in fds |-> NoChannel]]
  /\ eventListSize = [p \in pollers |-> kInitEventListSize]

\* Called when the interest of channel ch has changed; without any interest a
\* registered channel leaves epoll and stays in the table.
updateChannel(p, ch, fd, isNoneEvent) ==
  /\ channels_' = IF index[ch] = "kNew" THEN [channels_ EXCEPT ![p][fd] = ch]
                                        ELSE channels_
  /\ index' = [index EXCEPT ![ch] = IF @ = "kAdded" /\ isNoneEvent THEN "kDeleted"
                                                                  ELSE "kAdded"]
  /\ UNCHANGED eventListSize

\* The entry goes whichever channel it points to.
removeChannel(p, ch, fd) ==
  /\ channels_' = [channels_ EXCEPT ![p][fd] = NoChannel]
  /\ index' = [index EXCEPT ![ch] = "kNew"]
  /\ UNCHANGED eventListSize

\* Mutation: the list keeps its length.
pollWithoutGrowth(p, ready, active) ==
  /\ active \subseteq ready
  /\ Cardinality(active) = IF Cardinality(ready) < eventListSize[p]
                           THEN Cardinality(ready) ELSE eventListSize[p]
  /\ UNCHANGED <<index, channels_, eventListSize>>

\* epoll_wait reports as many of the ready channels as fit, whichever it likes;
\* a list that was filled is twice as long the next time.
poll(p, ready, active) ==
  /\ active \subseteq ready
  /\ Cardinality(active) = IF Cardinality(ready) < eventListSize[p]
                           THEN Cardinality(ready) ELSE eventListSize[p]
  /\ eventListSize' = IF Cardinality(active) = eventListSize[p]
                      THEN [eventListSize EXCEPT ![p] = 2 * @] ELSE eventListSize
  /\ UNCHANGED <<index, channels_>>
=============================================================================
