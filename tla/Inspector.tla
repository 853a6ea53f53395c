----------------------------- MODULE Inspector -----------------------------
(***************************************************************************)
(* The request book of the client (crates/cy-core/src/inspector.rs): what  *)
(* came through the tunnels, oldest first, at most PerTunnelLimit requests *)
(* of each tunnel.  The forwarding tasks share it; each call locks it for  *)
(* itself, and a task calls it twice, for the request and the response.    *)
(*                                                                         *)
(* A record carries the visitor whose request it is: the code keeps the    *)
(* request itself.                                                         *)
(***************************************************************************)
EXTENDS Naturals, Sequences, SequencesExt, FiniteSets

CONSTANTS
  Names,           \* tunnel names
  Visitors,        \* requests from the outside
  PerTunnelLimit   \* PER_TUNNEL_LIMIT

ASSUME InspectorAssumption == PerTunnelLimit \in Nat \ {0}

VARIABLES
  records,       \* Inner.records: a sequence
  next_record    \* Inner.next_id

inspectorVars == <<records, next_record>>

Pending == "pending"

InspectorInit == records = <<>> /\ next_record = 0

\* The records of a tunnel.
Of(book, name) == {i \in DOMAIN book : book[i].tunnel = name}

\* Mutant: the limit is on the whole book.
EvictOldestOfAll(book, name) ==
  IF Len(book) > PerTunnelLimit THEN Tail(book) ELSE book

\* The oldest record of the tunnel goes when there is one too many.
EvictOldest(book, name) ==
  IF Cardinality(Of(book, name)) > PerTunnelLimit
    THEN RemoveAt(book, CHOOSE i \in Of(book, name) : \A j \in Of(book, name) : i <= j)
    ELSE book

Record(id, name, visitor) ==
  [id |-> id, tunnel |-> name, of |-> visitor, status |-> Pending]

\* The number is drawn before the lock is taken ...
DrawRecordId == next_record' = next_record + 1 /\ UNCHANGED records

\* ... and the record goes in, whatever was put in meanwhile.
RecordRequest(id, name, visitor) ==
  /\ records' = EvictOldest(Append(records, Record(id, name, visitor)), name)
  /\ UNCHANGED next_record

\* Mutant: the response is taken to be that of the newest request.
RecordResponseOnNewest(id, status) ==
  /\ records' = IF records = <<>> THEN records
                ELSE [records EXCEPT ![Len(records)].status = status]
  /\ UNCHANGED next_record

\* record_response(): the record may be gone by now.
RecordResponse(id, status) ==
  /\ records' = [i \in DOMAIN records |->
       IF records[i].id = id THEN [records[i] EXCEPT !.status = status] ELSE records[i]]
  /\ UNCHANGED next_record

\* clear(Some(name)) and clear(None), from the user interface: the other tunnels'
\* records stay, in their order.
Clear(name) ==
  /\ records # <<>>
  /\ LET kept == DOMAIN records \ Of(records, name) IN
       \E at \in [1..Cardinality(kept) -> kept] :
         /\ \A j, k \in DOMAIN at : j < k => at[j] < at[k]
         /\ records' = [k \in DOMAIN at |-> records[at[k]]]
  /\ UNCHANGED next_record

ClearAll ==
  /\ records # <<>>
  /\ records' = <<>>
  /\ UNCHANGED next_record

-----------------------------------------------------------------------------

\* What the panel shows as the outcome of a request is the outcome of that
\* request, although other tasks record theirs between a task's two calls
\* (record_response() finds the record by the number drawn for it).
ResponseOnOwnRecord ==
  \A i \in DOMAIN records : records[i].status \in {Pending, records[i].of}

\* A record leaves the book only because its own tunnel has a full set of
\* others, or because the user clears it: a busy tunnel does not push out the
\* requests of a quiet one (the comment in record_request()).
OthersRecordsKept ==
  [][\A i \in DOMAIN records, k \in DOMAIN records' :
       LET old == records[i]
           new == records'[k]
       IN  /\ \A j \in DOMAIN records' : records'[j].id # old.id   \* it leaves as
           /\ \A j \in DOMAIN records : records[j].id # new.id     \* this one comes
           => /\ old.tunnel = new.tunnel
              /\ Cardinality(Of(records', new.tunnel)) = PerTunnelLimit]_records
=============================================================================
