---------------------------- MODULE ConsensusLog ----------------------------
(***************************************************************************)
(* The replicated log of hw2/src/consensus: std::vector<LogItem> with a    *)
(* sentinel ("", 0) at index 0 (node.cpp:87).  Here a log is the sequence  *)
(* of the items after the sentinel, so that index i of the vector is index *)
(* i of the sequence, log.size() - 1 is Len(log), and the sentinel is      *)
(* "index 0, term 0".                                                      *)
(***************************************************************************)
EXTENDS Naturals, Sequences

\* GetLastLogIndex.
LastLogIndex(log) == Len(log)

\* log[i].leader_term for an index inside the vector, the sentinel included.
TermAt(log, i) == IF i = 0 THEN 0 ELSE log[i].term

\* GetLastLogTerm.
LastLogTerm(log) == TermAt(log, Len(log))

\* Mutant of ItemsFrom: the copy starts one item late.
ItemsAfter(log, i) == SubSeq(log, i + 1, Len(log))

\* The items from index i to the end, which SendAppendEntriesToSomeone copies
\* into a request.
ItemsFrom(log, i) == SubSeq(log, i, Len(log))

\* The consistency check of AppendEntries: the receiver has an item at
\* prev_log_index, and it is of prev_log_term.
HasPrev(log, prev, term) == prev <= Len(log) /\ TermAt(log, prev) = term

\* The receiver's items after prev that are the request's already.
Contains(log, prev, items) ==
    /\ prev + Len(items) <= Len(log)
    /\ \A k \in 1 .. Len(items) : log[prev + k] = items[k]

\* Mutants of AppendItems: the request's items are pushed whatever is there; the
\* log is cut whether or not an item differs.
AppendBehind(log, prev, items) == log \o items
AppendAlways(log, prev, items) == SubSeq(log, 1, prev) \o items

\* The loop of HandleAppendEntriesRequest: keep what is there, cut the log at
\* the first item that differs and push the rest of the request.
AppendItems(log, prev, items) ==
    IF Contains(log, prev, items) THEN log ELSE SubSeq(log, 1, prev) \o items

\* Mutant of UpToDate: the logs are not compared.
UpToDateAnyhow(log, term, index) == TRUE

\* The check of HandleRequestVoteRequest: a candidate whose last item is at
\* (term, index) is at least as up-to-date as this log.
UpToDate(log, term, index) ==
    \/ LastLogTerm(log) < term
    \/ LastLogTerm(log) = term /\ Len(log) <= index

\* Two logs that both reach index k and are the same up to it.
SameUpTo(a, b, k) ==
    /\ k <= Len(a) /\ k <= Len(b)
    /\ \A i \in 1 .. k : a[i] = b[i]

\* If two logs have an item of the same term at an index, they are the same up
\* to it.
LogsMatch(a, b) == \A i \in DOMAIN a \cap DOMAIN b :
    a[i].term = b[i].term => SameUpTo(a, b, i)
=============================================================================
