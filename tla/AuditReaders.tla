---------------------------- MODULE AuditReaders -----------------------------
(***************************************************************************)
(* The readers of the audit table that page through it: list_events and    *)
(* the cursor of GET /audit-events.  A page is taken in the order          *)
(* (timestamp, seq) descending; its cursor is a seq, and the next page is  *)
(* drawn from the rows with a smaller seq.                                 *)
(***************************************************************************)
EXTENDS AuditChain

CONSTANT PageLimit   \* the limit parameter of the request

ASSUME PageLimitAssumption == PageLimit \in Nat \ {0}

\* ORDER BY timestamp DESC, seq DESC LIMIT n.
Newest(S, n) == {r \in S : Cardinality({q \in S \ {r} : Later(q, r)}) < n}

\* list_events(limit, workspace_id, after_seq).
ListEvents(w, after) == Newest({r \in WorkspaceRows(w) : r.seq < after}, PageLimit)

\* Mutant of NextCursor: one too low, as for an inclusive bound.
NextCursorOffByOne(page) ==
    LET last == (CHOOSE r \in page : \A q \in page : Later(q, r)).seq
    IN  IF last = 0 THEN 0 ELSE last - 1

\* next_cursor of a full page: the seq of its last item.
NextCursor(page) == (CHOOSE r \in page : \A q \in page : Later(q, r)).seq

\* The rows a client sees that follows next_cursor from the first page on.
CursorWalk(w) ==
    LET walk[after \in 0 .. nextSeq] ==
            LET page == ListEvents(w, after)
            IN  IF Cardinality(page) = PageLimit
                THEN page \cup walk[NextCursor(page)]
                ELSE page
    IN  walk[nextSeq]

\* Paginating with the cursor yields every event of the workspace.
WalkSeesAll == \A w \in Workspace : CursorWalk(w) = WorkspaceRows(w)

\* The cursor loses no event as long as timestamps follow the insertion order.
WalkSeesAllWithoutInversion == TimestampsFollowSeq => WalkSeesAll
==============================================================================
