------------------------------ MODULE Streams ------------------------------
(***************************************************************************)
(* The streams of SimplePrefetcher (src/src/Prefetcher.cc): the last        *)
(* addresses of a few runs of accesses.  An access less than a page beyond   *)
(* one continues it, and as many addresses are prefetched at its stride as   *)
(* the degree says; another access starts a stream.  Addresses are below     *)
(* 2^63, so that the unsigned distance to a higher one is never the least.   *)
(***************************************************************************)
EXTENDS Integers, Sequences

CONSTANTS
  PageSize,     \* PAGE_SIZE (4096)
  NbStreams,    \* prefetchStreams (16)
  Degree,       \* prefetchDegree (2)
  AddressBound, \* bound: the addresses accessed
  AccessBound   \* bound: the number of accesses

ASSUME StreamsAssumption ==
  /\ PageSize \in Nat \ {0} /\ NbStreams \in Nat \ {0} /\ Degree \in Nat \ {0}
  /\ AddressBound \in Nat /\ AccessBound \in Nat

VARIABLES
  streams,       \* m_prev_address
  m_stop_at_page,
  prefetched,    \* the addresses the last access returned
  recent         \* history: the addresses accessed so far

streamsVars == <<streams, m_stop_at_page, prefetched, recent>>

StreamSlots == 1 .. NbStreams
NoStream == [addr |-> 0, valid |-> FALSE, lru |-> -1]

StreamsTypeOK ==
  /\ streams \in [StreamSlots -> [addr : Nat, valid : BOOLEAN, lru : Nat \cup {-1}]]
  /\ m_stop_at_page \in BOOLEAN
  /\ prefetched \subseteq Nat
  /\ recent \in Seq(Nat)

\* The m_stop_at_page getNextAddress reads is that of the derived class, which
\* nothing initialises: either value, and always the same.
StreamsInit ==
  /\ streams = [i \in StreamSlots |-> NoStream]
  /\ m_stop_at_page \in BOOLEAN
  /\ prefetched = {}
  /\ recent = <<>>

-----------------------------------------------------------------------------
\* The valid streams at or behind an address, and the distance to the nearest.
Behind(a) == {i \in StreamSlots : streams[i].valid /\ streams[i].addr <= a}
IsNearest(i, a) ==
  i \in Behind(a) /\ \A j \in Behind(a) :
    streams[j].addr < streams[i].addr \/ (streams[j].addr = streams[i].addr /\ i <= j)

Continues(i, a) == /\ IsNearest(i, a)
                   /\ a - streams[i].addr \in 1 .. (PageSize - 1)

\* The next access has this time: cpt_time grows between them.
Now == Len(recent)

Stream(a) == [addr |-> a, valid |-> TRUE, lru |-> Now]

\* Mutant: a stream that goes on keeps its age.
ContinueStreamAges(i, a) ==
  LET stride == a - streams[i].addr
  IN /\ streams' = [streams EXCEPT ![i].addr = a]
     /\ prefetched' = {p \in {a + k * stride : k \in 1 .. Degree} :
                         m_stop_at_page => p \div PageSize = a \div PageSize}

\* The stream moves to the address and is the latest.
ContinueStream(i, a) ==
  LET stride == a - streams[i].addr
  IN /\ streams' = [streams EXCEPT ![i] = Stream(a)]
     /\ prefetched' = {p \in {a + k * stride : k \in 1 .. Degree} :
                         m_stop_at_page => p \div PageSize = a \div PageSize}

\* The first of the streams continued last.
IsOldestStream(i) ==
  \A j \in StreamSlots :
    streams[i].lru < streams[j].lru \/ (streams[i].lru = streams[j].lru /\ i <= j)

\* A new stream takes all free slots; if there is none, that of the oldest.
StartStream(a) ==
  LET free == {i \in StreamSlots : ~streams[i].valid}
  IN /\ streams' = [i \in StreamSlots |->
                      IF i \in free \/ (free = {} /\ IsOldestStream(i))
                      THEN Stream(a) ELSE streams[i]]
     /\ prefetched' = {}

\* getNextAddress.
NextAddress(a) ==
  /\ \/ \E i \in StreamSlots : Continues(i, a) /\ ContinueStream(i, a)
     \/ (\A i \in StreamSlots : ~Continues(i, a)) /\ StartStream(a)
  /\ recent' = Append(recent, a)
  /\ UNCHANGED m_stop_at_page

StreamsNext ==
  Len(recent) < AccessBound /\ \E a \in 0 .. AddressBound : NextAddress(a)

StreamsSpec == StreamsInit /\ [][StreamsNext]_streamsVars

-----------------------------------------------------------------------------
(***************************************************************************)
(* Properties.                                                             *)
(***************************************************************************)
\* The k-th last address can still be continued by address a: it is less than a
\* page behind, and no access since was within a page beyond it.
Awaits(k, a) ==
  LET from == recent[Len(recent) + 1 - k]
      Beyond(b) == b - from \in 1 .. (PageSize - 1)
  IN Beyond(a) /\ \A j \in 1 .. (k - 1) : ~Beyond(recent[Len(recent) + 1 - j])

\* The table follows as many interleaved runs as it has streams, although the
\* first one took all slots (Prefetcher.cc:58): an access that continues one of
\* the last NbStreams accesses has its next address prefetched, at a stride no
\* longer than from there, unless the page ends.  The exception is an address that
\* still is the last of a stream: its distance 0 hides the stream behind it.
SuccessorIsPrefetched ==
  [][\A k \in 1 .. NbStreams, a \in 0 .. AddressBound :
       (k <= Len(recent) /\ recent' = Append(recent, a) /\ Awaits(k, a))
         => \/ \E i \in StreamSlots : streams[i].valid /\ streams[i].addr = a
            \/ LET from == recent[Len(recent) + 1 - k]
                   next == {a + stride : stride \in 1 .. (a - from)}
               IN \/ prefetched' \cap next # {}
                  \/ /\ m_stop_at_page
                     /\ \E p \in next : p \div PageSize # a \div PageSize]_streamsVars
=============================================================================
