--------------------------- MODULE CatalogProofs ---------------------------
(***************************************************************************)
(* Edits and imports, for any number of handlers, users, products and      *)
(* workbooks. The first invariant (CatalogInv) follows a preview through   *)
(* the store, the request that took it and its audit row; the second       *)
(* (CatalogTypes) says what every request read and may still rely on. Both *)
(* together show that an import is what its user reviewed, is told whole   *)
(* by its receipts, happens once, and for nobody who may not write.        *)
(***************************************************************************)
EXTENDS Catalog, FiniteSetTheorems, TLAPS

Holds(r) == req[r].at \in {"confirm", "record"}

(* The variables are tables, and every request says where it is.           *)
Tables ==
  /\ req = [r \in Requests |-> req[r]]
  /\ preview = [id \in PreviewIds |-> preview[id]]
  /\ attempt = [id \in PreviewIds |-> attempt[id]]
  /\ \A r \in Requests : "at" \in DOMAIN req[r]

(* What a request holds it took out of the store, alone, and did not       *)
(* finish.                                                                 *)
Held ==
  \A r \in Requests : Holds(r) =>
    /\ req[r].id \in PreviewIds /\ preview[req[r].id] = Gone /\ attempt[req[r].id] = None
    /\ \A q \in Requests \ {r} : Holds(q) => req[q].id # req[r].id

(* Nothing was confirmed that is still in the store or was never issued.   *)
Unattempted == \A id \in PreviewIds : preview[id] # Gone => attempt[id] = None

CatalogInv == Tables /\ Held /\ Unattempted

-----------------------------------------------------------------------------
(* Nothing is previewed when the process starts.                           *)
LEMMA CatalogStart == Init => CatalogInv
  BY CatalogAssumption DEF Init, CatalogInv, Tables, Held, Holds, Unattempted, Idle, Gone

(* What left the store does not come back.                                 *)
Stored ==
  /\ preview' = [id \in PreviewIds |-> preview'[id]]
  /\ \A id \in PreviewIds : preview[id] = Gone => preview'[id] = Gone

(* The store changes while no request moves.                               *)
LEMMA Stores ==
  ASSUME CatalogInv, UNCHANGED <<req, attempt>>, Stored
  PROVE  CatalogInv'
  BY DEF CatalogInv, Tables, Held, Holds, Unattempted, Stored

(* A request moves on that holds no preview afterwards.                    *)
LEMMA Moves ==
  ASSUME CatalogInv, NEW r \in Requests, NEW to, req' = [req EXCEPT ![r] = to],
         "at" \in DOMAIN to, to.at \notin {"confirm", "record"}, UNCHANGED attempt,
         Stored \/ UNCHANGED preview
  PROVE  CatalogInv'
<1>1. /\ req' = [q \in Requests |-> req'[q]] /\ req'[r] = to
      /\ \A q \in Requests \ {r} : req'[q] = req[q]
  BY DEF CatalogInv, Tables
<1>2. Stored
  BY DEF Stored, CatalogInv, Tables
<1> QED BY <1>1, <1>2 DEF CatalogInv, Tables, Held, Holds, Unattempted, Stored

(* Ends of requests and edits of the catalogue.                            *)
LEMMA EditSteps ==
  ASSUME CatalogInv, NEW r \in Requests,
         \/ \E s \in Sessions, edit \in Edits : SubmitEdit(r, s, edit)
         \/ \E s \in Sessions, book \in Workbooks : SubmitPreview(r, s, book)
         \/ \E p \in ProductIds : Compare(r, p)
         \/ Look(r) \/ Write(r) \/ EditFails(r)
  PROVE  CatalogInv'
<1>1. ASSUME NEW s \in Sessions, NEW edit \in Edits, SubmitEdit(r, s, edit) PROVE CatalogInv'
  <2> DEFINE to == [at |-> "look", session |-> s, edit |-> edit, seen |-> None]
  <2>1. "at" \in DOMAIN to /\ to.at = "look"
    OBVIOUS
  <2>2. req' = [req EXCEPT ![r] = to] /\ UNCHANGED <<preview, attempt>>
    BY <1>1 DEF SubmitEdit
  <2> HIDE DEF to
  <2> QED BY <2>1, <2>2, Moves
<1>2. ASSUME NEW s \in Sessions, NEW book \in Workbooks, SubmitPreview(r, s, book) PROVE CatalogInv'
  <2> DEFINE to == [at |-> "read", session |-> s, book |-> book, items |-> <<>>]
  <2>1. "at" \in DOMAIN to /\ to.at = "read"
    OBVIOUS
  <2>2. req' = [req EXCEPT ![r] = to] /\ UNCHANGED <<preview, attempt>>
    BY <1>2 DEF SubmitPreview
  <2> HIDE DEF to
  <2> QED BY <2>1, <2>2, Moves
<1>3. ASSUME NEW p \in ProductIds, Compare(r, p) PROVE CatalogInv'
  <2>1. PICK items : req' = [req EXCEPT ![r].items = items]
    BY <1>3 DEF Compare
  <2> DEFINE to == [req[r] EXCEPT !.items = items]
  <2>2. "at" \in DOMAIN req[r] /\ req[r].at = "read" /\ UNCHANGED <<preview, attempt>>
    BY <1>3 DEF Compare, CatalogInv, Tables
  <2>3. "at" \in DOMAIN to /\ to.at = "read"
    BY <2>2
  <2>4. req' = [req EXCEPT ![r] = to]
    BY <2>1
  <2> HIDE DEF to
  <2> QED BY <2>2, <2>3, <2>4, Moves
<1>4. ASSUME Ends(r), UNCHANGED <<preview, attempt>> PROVE CatalogInv'
  <2>1. "at" \in DOMAIN Idle /\ Idle.at = "idle"
    BY DEF Idle
  <2> QED BY <1>4, <2>1, Moves DEF Ends
<1>5. ASSUME Look(r) PROVE CatalogInv'
  <2>1. CASE Ends(r)
    BY <1>4, <1>5, <2>1 DEF Look
  <2>2. CASE ~Ends(r)
    <3>1. PICK seen : req' = [req EXCEPT ![r].at = "write", ![r].seen = seen]
      BY <1>5, <2>2 DEF Look
    <3> DEFINE to == [req[r] EXCEPT !.at = "write", !.seen = seen]
    <3>2. "at" \in DOMAIN req[r] /\ UNCHANGED <<preview, attempt>>
      BY <1>5 DEF Look, CatalogInv, Tables
    <3>3. "at" \in DOMAIN to /\ to.at = "write"
      BY <3>2
    <3>4. req' = [req EXCEPT ![r] = to]
      BY <3>1 DEF CatalogInv, Tables
    <3> HIDE DEF to
    <3> QED BY <3>2, <3>3, <3>4, Moves
  <2> QED BY <2>1, <2>2
<1>6. ASSUME Write(r) \/ EditFails(r) PROVE CatalogInv'
  BY <1>4, <1>6 DEF Write, EditFails
<1> QED BY <1>1, <1>2, <1>3, <1>5, <1>6

(* The store drops what expired and keeps everything else.                 *)
LEMMA PurgedFacts ==
  /\ Purged = [id \in PreviewIds |-> Purged[id]]
  /\ \A id \in PreviewIds : Purged[id] \in {preview[id], Gone}
  BY DEF Purged

(* The end of a preview and the begin of a confirmation.                   *)
LEMMA StoreSteps ==
  ASSUME CatalogInv, NEW r \in Requests, Put(r) \/ \E s \in Sessions, id \in PreviewIds : Take(r, s, id)
  PROVE  CatalogInv'
<1>1. CASE Put(r)
  <2>1. "at" \in DOMAIN Idle /\ Idle.at = "idle" /\ req' = [req EXCEPT ![r] = Idle] /\ UNCHANGED attempt
    BY <1>1 DEF Put, Ends, Idle
  <2>2. CASE preview' \in {Purged, preview}
    <3>1. Stored
      BY <2>2, PurgedFacts DEF Stored, CatalogInv, Tables
    <3> QED BY <2>1, <3>1, Moves
  <2>3. CASE preview' \notin {Purged, preview}
    <3>0. PICK id \in PreviewIds \ Rows(preview) : \E entry : preview' = [Purged EXCEPT ![id] = entry]
      BY <1>1, <2>3 DEF Put
    <3>1. PICK entry : preview' = [Purged EXCEPT ![id] = entry]
      BY <3>0
    <3>2. preview[id] = None
      BY <3>1 DEF Rows, CatalogInv, Tables
    <3>3. Stored
      BY <3>1, <3>2, PurgedFacts, CatalogAssumption DEF Stored, Gone
    <3> QED BY <2>1, <3>3, Moves
  <2> QED BY <2>2, <2>3
<1>2. ASSUME NEW s \in Sessions, NEW id \in PreviewIds, Take(r, s, id) PROVE CatalogInv'
  <2>1. CASE ~Takes(s, id)
    <3>1. preview' = Purged /\ UNCHANGED <<req, attempt>>
      BY <1>2, <2>1 DEF Take
    <3> QED BY <3>1, PurgedFacts, Stores DEF Stored
  <2>2. CASE Takes(s, id)
    <3> DEFINE to == [at |-> "confirm", session |-> s, id |-> id, book |-> preview[id].book,
                      items |-> preview[id].items]
    <3>1. req' = [req EXCEPT ![r] = to] /\ preview' = [Purged EXCEPT ![id] = Gone] /\ UNCHANGED attempt
      BY <1>2, <2>2 DEF Take, Popped
    <3>2. "at" \in DOMAIN to /\ to.id = id
      OBVIOUS
    <3> HIDE DEF to
    <3>3. preview[id] # Gone
      BY <2>2 DEF Takes, InState, Gone
    <3>4. /\ Stored /\ preview'[id] = Gone
      BY <3>1, PurgedFacts DEF Stored
    <3>5. /\ req' = [q \in Requests |-> req'[q]] /\ req'[r] = to
          /\ \A q \in Requests \ {r} : req'[q] = req[q]
      BY <3>1 DEF CatalogInv, Tables
    <3>6. Tables'
      BY <3>1, <3>2, <3>4, <3>5 DEF CatalogInv, Tables, Stored
    <3>7. \A q \in Requests \ {r} : Holds(q)' => /\ req'[q].id \in PreviewIds /\ req'[q].id # id
                                                 /\ preview'[req'[q].id] = Gone /\ attempt'[req'[q].id] = None
      BY <3>1, <3>3, <3>4, <3>5 DEF CatalogInv, Held, Holds, Stored
    <3>8. attempt'[id] = None
      BY <3>1, <3>3 DEF CatalogInv, Unattempted
    <3>9. Held'
      <4> SUFFICES ASSUME NEW p \in Requests, Holds(p)'
                   PROVE  /\ req'[p].id \in PreviewIds /\ preview'[req'[p].id] = Gone
                          /\ attempt'[req'[p].id] = None
                          /\ \A q \in Requests \ {p} : Holds(q)' => req'[q].id # req'[p].id
        BY DEF Held
      <4>1. CASE p = r
        BY <3>2, <3>4, <3>5, <3>7, <3>8, <4>1
      <4>2. CASE p # r
        BY <3>2, <3>5, <3>7, <4>2 DEF CatalogInv, Held, Holds
      <4> QED BY <4>1, <4>2
    <3>10. Unattempted'
      BY <3>1, <3>4 DEF CatalogInv, Unattempted, Stored
    <3> QED BY <3>6, <3>9, <3>10 DEF CatalogInv
  <2> QED BY <2>1, <2>2
<1> QED BY <1>1, <1>2

(* A request that holds a preview records its attempt and lets it go.      *)
LEMMA Finished ==
  ASSUME CatalogInv, NEW r \in Requests, Holds(r), Ends(r), UNCHANGED preview,
         attempt' = [id \in PreviewIds |-> attempt'[id]],
         \A id \in PreviewIds : id # req[r].id => attempt'[id] = attempt[id]
  PROVE  CatalogInv'
<1>1. /\ req' = [q \in Requests |-> req'[q]] /\ req'[r] = Idle
      /\ \A q \in Requests \ {r} : req'[q] = req[q]
  BY DEF CatalogInv, Tables, Ends
<1>2. "at" \in DOMAIN Idle /\ Idle.at = "idle"
  BY DEF Idle
<1>3. preview[req[r].id] = Gone
  BY DEF CatalogInv, Held
<1> QED BY <1>1, <1>2, <1>3 DEF CatalogInv, Tables, Held, Holds, Unattempted

(* A confirmation that is refused or fails.                                *)
LEMMA HeldStill ==
  ASSUME CatalogInv, NEW r \in Requests, Holds(r), NEW status, ToRecord(r, status), UNCHANGED <<preview, attempt>>
  PROVE  CatalogInv'
<1> DEFINE to == [at |-> "record", session |-> req[r].session, id |-> req[r].id, status |-> status]
<1>1. req' = [req EXCEPT ![r] = to]
  BY DEF ToRecord, CatalogInv, Tables
<1>2. "at" \in DOMAIN to /\ to.id = req[r].id
  OBVIOUS
<1> HIDE DEF to
<1>3. /\ req' = [q \in Requests |-> req'[q]] /\ req'[r] = to
      /\ \A q \in Requests \ {r} : req'[q] = req[q]
  BY <1>1 DEF CatalogInv, Tables
<1>4. \A q \in Requests : (Holds(q)' => Holds(q)) /\ (Holds(q)' => req'[q].id = req[q].id)
  BY <1>2, <1>3 DEF Holds
<1> QED BY <1>2, <1>3, <1>4 DEF CatalogInv, Tables, Held, Unattempted

(* PriceImportTransaction.confirm, whatever it does.                       *)
LEMMA ConfirmSteps ==
  ASSUME CatalogInv, NEW r \in Requests, Confirm(r) \/ Refuse(r) \/ ConfirmFails(r) \/ RecordFailure(r)
  PROVE  CatalogInv'
<1>1. Holds(r)
  BY DEF Holds, Confirm, Refuse, ConfirmFails, RecordFailure
<1>2. CASE Confirm(r)
  <2>1. attempt' = [attempt EXCEPT ![req[r].id] = "success"] /\ Ends(r) /\ UNCHANGED preview
    BY <1>2 DEF Confirm
  <2>2. /\ attempt' = [id \in PreviewIds |-> attempt'[id]]
        /\ \A id \in PreviewIds : id # req[r].id => attempt'[id] = attempt[id]
    BY <2>1 DEF CatalogInv, Tables
  <2> QED BY <1>1, <2>1, <2>2, Finished
<1>3. CASE Refuse(r)
  BY <1>1, <1>3, HeldStill DEF Refuse
<1>4. CASE ConfirmFails(r)
  BY <1>1, <1>4, HeldStill DEF ConfirmFails
<1>5. CASE RecordFailure(r)
  <2>1. /\ attempt' \in {attempt, [attempt EXCEPT ![req[r].id] = req[r].status]}
        /\ Ends(r) /\ UNCHANGED preview
    BY <1>5 DEF RecordFailure
  <2>2. /\ attempt' = [id \in PreviewIds |-> attempt'[id]]
        /\ \A id \in PreviewIds : id # req[r].id => attempt'[id] = attempt[id]
    BY <2>1 DEF CatalogInv, Tables
  <2> QED BY <1>1, <2>1, <2>2, Finished
<1> QED BY <1>2, <1>3, <1>4, <1>5

(* Roles, time and restarts.                                               *)
LEMMA EnvironmentSteps ==
  ASSUME CatalogInv, (\E u \in Users : Demote(u)) \/ (\E id \in PreviewIds : Expire(id)) \/ Restart
  PROVE  CatalogInv'
<1>1. CASE \E u \in Users : Demote(u)
  BY <1>1 DEF Demote, CatalogInv, Tables, Held, Holds, Unattempted
<1>2. ASSUME NEW id \in PreviewIds, Expire(id) PROVE CatalogInv'
  <2>1. PICK entry : preview' = [preview EXCEPT ![id] = entry]
    BY <1>2 DEF Expire
  <2>2. preview[id] # Gone /\ UNCHANGED <<req, attempt>>
    BY <1>2 DEF Expire, InState, Gone
  <2>3. Stored
    BY <2>1, <2>2 DEF Stored, CatalogInv, Tables
  <2> QED BY <2>2, <2>3, Stores
<1>3. CASE Restart
  <2>1. req' = [r \in Requests |-> Idle] /\ Idle.at = "idle" /\ "at" \in DOMAIN Idle /\ UNCHANGED attempt
    BY <1>3 DEF Restart, Idle
  <2>2. preview' = [id \in PreviewIds |-> IF id \in InState({"pending", "expired"}) THEN Gone ELSE preview[id]]
    BY <1>3 DEF Restart
  <2>3. Stored
    BY <2>2 DEF Stored
  <2> QED BY <2>1, <2>3 DEF CatalogInv, Tables, Held, Holds, Unattempted, Stored
<1> QED BY <1>1, <1>2, <1>3

(* Every request, and everything around them, keeps the invariant.         *)
LEMMA CatalogStep == CatalogInv /\ [Next]_vars => CatalogInv'
<1>1. ASSUME CatalogInv, NEW r \in Requests, Asks(r) \/ Serve(r) PROVE CatalogInv'
  <2>1. CASE Asks(r)
    BY <1>1, <2>1, EditSteps, StoreSteps DEF Asks, AsksIn
  <2>2. CASE Serve(r)
    BY <1>1, <2>2, EditSteps, StoreSteps, ConfirmSteps DEF Serve
  <2> QED BY <1>1, <2>1, <2>2
<1>2. ASSUME CatalogInv, UNCHANGED vars PROVE CatalogInv'
  BY <1>2 DEF vars, CatalogInv, Tables, Held, Holds, Unattempted
<1> QED BY <1>1, <1>2, EnvironmentSteps DEF Next

-----------------------------------------------------------------------------
(* A preview is taken by one request and finished once (AdminPriceImport-  *)
(* PendingStore.take, PriceImportTransaction.confirm).                     *)
THEOREM PreviewsAreConsumedOnce == Spec => []ConsumedOnce
<1>1. CatalogInv => ConsumedOnce
  BY DEF CatalogInv, Held, Holds, ConsumedOnce
<1> QED BY <1>1, CatalogStart, CatalogStep, PTL DEF Spec

(* Only the request that confirms a preview makes its attempt a success.   *)
LEMMA CommitsConfirm ==
  ASSUME CatalogInv, [Next]_vars, NEW r \in Requests, Commits(r)
  PROVE  Confirm(r)
<1>1. Holds(r) /\ req[r].at = "confirm" /\ attempt[req[r].id] = None /\ attempt'[req[r].id] = "success"
      /\ None # "success"
  BY CatalogAssumption DEF Commits, CatalogInv, Held, Holds
<1>2. attempt' # attempt
  BY <1>1
<1>3. PICK q \in Requests : Confirm(q) \/ RecordFailure(q)
  BY <1>2 DEF Next, Asks, AsksIn, Serve, vars, SubmitEdit, SubmitPreview, Take, Look, Write, EditFails, Compare, Put,
              Refuse, ConfirmFails, Demote, Expire, Restart
<1>4. Holds(q) /\ \A id \in PreviewIds : id # req[q].id => attempt'[id] = attempt[id]
  BY <1>3 DEF Holds, Confirm, RecordFailure, CatalogInv, Tables
<1>5. q = r
  BY <1>1, <1>4 DEF CatalogInv, Held
<1> QED BY <1>1, <1>3, <1>5 DEF RecordFailure

-----------------------------------------------------------------------------
(* Types. What is written when a request goes on was read before by the    *)
(* request itself; products are never deleted, and the rows of a price     *)
(* keep their product.                                                     *)
Offers == [name : Names, active : BOOLEAN]
Prices == [product : ProductIds, amount : Amounts]
PriceSeen == [id : PriceIds, amount : Amounts]
SeenBy(edit) ==
  IF edit.kind = "update" THEN Offers
  ELSE IF edit.kind = "delete" THEN PriceSeen
  ELSE IF edit.kind = "put" THEN {None} \cup PriceSeen ELSE {None}
Sound(items, book) == items \in [DOMAIN book -> Item] /\ Valid(items)

LookAsked(q) == \E s \in Sessions, edit \in Edits : q = [at |-> "look", session |-> s, edit |-> edit, seen |-> None]
WriteAsked(rows, q) == \E s \in Sessions, edit \in Edits : \E seen \in SeenBy(edit) :
                         /\ q = [at |-> "write", session |-> s, edit |-> edit, seen |-> seen]
                         /\ edit.kind # "create" => edit.product \in rows
ReadAsked(q) == \E s \in Sessions, book \in Workbooks : \E some \in SUBSET DOMAIN book : \E items \in [some -> Item] :
                  q = [at |-> "read", session |-> s, book |-> book, items |-> items]
ConfirmAsked(q) == \E s \in Sessions, id \in PreviewIds, book \in Workbooks : \E items :
                     Sound(items, book) /\ q = [at |-> "confirm", session |-> s, id |-> id, book |-> book, items |-> items]
RecordAsked(q) == \E s \in Sessions, id \in PreviewIds, status \in {"rejected", "failed"} :
                    q = [at |-> "record", session |-> s, id |-> id, status |-> status]
Asked(rows, q) == q = Idle \/ LookAsked(q) \/ WriteAsked(rows, q) \/ ReadAsked(q) \/ ConfirmAsked(q) \/ RecordAsked(q)
RequestTypes == req = [r \in Requests |-> req[r]] /\ \A r \in Requests : Asked(Rows(product), req[r])

Kept(entry) == \E state \in {"pending", "expired"}, s \in Sessions, book \in Workbooks : \E items :
                 Sound(items, book) /\ entry = [state |-> state, session |-> s, book |-> book, items |-> items]
PreviewTypes ==
  /\ preview = [id \in PreviewIds |-> preview[id]]
  /\ \A id \in PreviewIds : preview[id] \in {None, Gone} \/ Kept(preview[id])
  /\ IsFiniteSet(InState({"pending"})) /\ Cardinality(InState({"pending"})) <= MaxPending

ProductTypes == /\ product \in [ProductIds -> Offers \cup {None}]
                /\ \A p, q \in Rows(product) : product[p].name = product[q].name => p = q
PriceTypes == /\ price \in [PriceIds -> Prices \cup {None}]
              /\ \A j, k \in Rows(price) : price[j].product = price[k].product => j = k
Told == [product : ProductIds, old : Amounts \cup {None}, new : Amounts \cup {None}]
RestTypes == /\ allowed \in [Users -> BOOLEAN] /\ receipts \subseteq Told
             /\ attempt \in [PreviewIds -> {None, "success", "rejected", "failed"}]

CatalogTypes == RestTypes /\ ProductTypes /\ PriceTypes /\ PreviewTypes /\ RequestTypes

LEMMA AskedFacts ==
  ASSUME NEW rows, NEW q, Asked(rows, q)
  PROVE  /\ q.at \in {"idle", "look", "write", "read", "confirm", "record"}
         /\ q.at = "look" => LookAsked(q)
         /\ q.at = "write" => WriteAsked(rows, q)
         /\ q.at = "read" => ReadAsked(q)
         /\ q.at = "confirm" => ConfirmAsked(q)
         /\ q.at = "record" => RecordAsked(q)
<1>1. CASE q = Idle
  BY <1>1 DEF Idle
<1>2. CASE LookAsked(q)
  BY <1>2 DEF LookAsked
<1>3. CASE WriteAsked(rows, q)
  <2>1. q.at = "write"
    BY <1>3 DEF WriteAsked
  <2> QED BY <1>3, <2>1
<1>4. CASE ReadAsked(q)
  <2>1. q.at = "read"
    BY <1>4 DEF ReadAsked
  <2> QED BY <1>4, <2>1
<1>5. CASE ConfirmAsked(q)
  <2>1. q.at = "confirm"
    BY <1>5 DEF ConfirmAsked
  <2> QED BY <1>5, <2>1
<1>6. CASE RecordAsked(q)
  <2>1. q.at = "record"
    BY <1>6 DEF RecordAsked
  <2> QED BY <1>6, <2>1
<1> QED BY <1>1, <1>2, <1>3, <1>4, <1>5, <1>6 DEF Asked

LEMMA TypesSuffice == CatalogTypes => TypeOK
<1> SUFFICES ASSUME CatalogTypes PROVE TypeOK
  OBVIOUS
<1>1. \A id \in InState({"pending", "expired"}) : Kept(preview[id])
  BY DEF CatalogTypes, PreviewTypes, InState, Rows, Gone
<1>2. \A id \in InState({"pending", "expired"}) : /\ preview[id].session \in Sessions
                                                 /\ preview[id].book \in Workbooks
                                                 /\ preview[id].items \in [DOMAIN preview[id].book -> Item]
  <2> SUFFICES ASSUME NEW entry, Kept(entry)
               PROVE  entry.session \in Sessions /\ entry.book \in Workbooks /\ entry.items \in [DOMAIN entry.book -> Item]
    BY <1>1
  <2> QED BY DEF Kept, Sound
<1>3. \A r \in Requests : req[r].at \in {"idle", "look", "write", "read", "confirm", "record"}
  BY AskedFacts DEF CatalogTypes, RequestTypes
<1> QED BY <1>2, <1>3 DEF CatalogTypes, TypeOK, RestTypes, ProductTypes, PriceTypes, PreviewTypes, Offers, Prices, Told

LEMMA TypesStart == Init => CatalogTypes
<1> SUFFICES ASSUME Init PROVE CatalogTypes
  OBVIOUS
<1>1. RestTypes /\ PriceTypes
  BY DEF Init, RestTypes, PriceTypes, Rows
<1>2. ProductTypes
  <2>1. PICK names \in [ProductIds -> Names \cup {None}] : Catalogue(names) /\ product = Offered(names)
    BY DEF Init
  <2>2. product \in [ProductIds -> Offers \cup {None}]
    BY <2>1 DEF Offered, Offers
  <2>3. \A p \in Rows(product) : p \in ProductIds /\ names[p] # None /\ product[p].name = names[p]
    BY <2>1 DEF Offered, Rows
  <2> QED BY <2>1, <2>2, <2>3 DEF Catalogue, ProductTypes
<1>3. PreviewTypes
  <2>1. InState({"pending"}) = {}
    BY DEF Init, InState, Rows
  <2>2. IsFiniteSet(InState({"pending"})) /\ Cardinality(InState({"pending"})) <= MaxPending
    BY <2>1, FS_EmptySet, CatalogAssumption
  <2>3. preview = [id \in PreviewIds |-> None]
    BY DEF Init
  <2> QED BY <2>2, <2>3 DEF PreviewTypes
<1>4. RequestTypes
  BY DEF Init, RequestTypes, Asked
<1> QED BY <1>1, <1>2, <1>3, <1>4 DEF CatalogTypes

(* A request moves on, and what others rely on stays.                      *)
LEMMA TypesMove ==
  ASSUME CatalogTypes, NEW r \in Requests, NEW to, req' = [req EXCEPT ![r] = to], Asked(Rows(product'), to),
         RestTypes', ProductTypes', PriceTypes', PreviewTypes', Rows(product) \subseteq Rows(product')
  PROVE  CatalogTypes'
<1>1. \A q \in Requests : Asked(Rows(product'), req[q])
  BY DEF CatalogTypes, RequestTypes, Asked, WriteAsked
<1>2. RequestTypes'
  BY <1>1 DEF CatalogTypes, RequestTypes, Rows
<1> QED BY <1>2 DEF CatalogTypes

(* The tables that a step leaves alone keep their types.                   *)
LEMMA Unwritten ==
  ASSUME CatalogTypes
  PROVE  /\ UNCHANGED product => ProductTypes' /\ Rows(product) \subseteq Rows(product')
         /\ UNCHANGED price => PriceTypes'
         /\ UNCHANGED preview => PreviewTypes'
         /\ UNCHANGED allowed /\ UNCHANGED attempt /\ receipts' \subseteq Told => RestTypes'
  BY DEF CatalogTypes, ProductTypes, PriceTypes, PreviewTypes, RestTypes, Rows, InState

LEMMA EditFacts ==
  ASSUME NEW edit \in Edits
  PROVE  /\ edit.kind \in {"put", "delete", "update", "create"}
         /\ edit.kind # "create" => edit.product \in ProductIds
         /\ edit.kind = "put" => edit.amount \in Amounts
         /\ edit.kind = "update" => edit.name \in Names /\ edit.active \in BOOLEAN
         /\ edit.kind = "create" => edit.name \in Names
  BY DEF Edits, Puts, Deletes, Updates, Creates

(* A product has one price, or none.                                       *)
LEMMA PriceFacts ==
  ASSUME PriceTypes, NEW p
  PROVE  /\ PricesOf(p) \subseteq Rows(price) /\ Rows(price) \subseteq PriceIds
         /\ \A k \in Rows(price) : price[k] \in Prices
         /\ \A k \in PricesOf(p) : PricesOf(p) = {k} /\ AmountOf(p) = price[k].amount /\ (CHOOSE j \in PricesOf(p) : TRUE) = k
         /\ PricesOf(p) = {} => AmountOf(p) = None
         /\ AmountOf(p) \in Amounts \cup {None}
         /\ AmountOf(p) = None => PricesOf(p) = {}
<1>1. PricesOf(p) \subseteq Rows(price) /\ Rows(price) \subseteq PriceIds /\ \A k \in Rows(price) : price[k] \in Prices
  BY DEF PriceTypes, PricesOf, Rows
<1>2. ASSUME NEW k \in PricesOf(p)
      PROVE  PricesOf(p) = {k} /\ AmountOf(p) = price[k].amount /\ (CHOOSE j \in PricesOf(p) : TRUE) = k
  <2>1. PricesOf(p) = {k}
    BY DEF PriceTypes, PricesOf
  <2>2. (CHOOSE j \in {k} : TRUE) = k
    OBVIOUS
  <2> QED BY <2>1, <2>2 DEF AmountOf
<1>3. PricesOf(p) = {} => AmountOf(p) = None
  BY DEF AmountOf
<1>4. \A k \in PricesOf(p) : price[k].amount \in Amounts
  BY <1>1 DEF Prices
<1> QED BY <1>1, <1>2, <1>3, <1>4, CatalogAssumption

LEMMA SubmitTypes ==
  ASSUME CatalogTypes, NEW r \in Requests, NEW s \in Sessions,
         (\E edit \in Edits : SubmitEdit(r, s, edit)) \/ \E book \in Workbooks : SubmitPreview(r, s, book)
  PROVE  CatalogTypes'
<1>1. UNCHANGED <<allowed, product, price, preview, attempt>> /\ receipts' = {}
  BY DEF SubmitEdit, SubmitPreview
<1>2. PICK to : req' = [req EXCEPT ![r] = to] /\ (LookAsked(to) \/ ReadAsked(to))
  <2>1. ASSUME NEW edit \in Edits, SubmitEdit(r, s, edit)
        PROVE  \E to : req' = [req EXCEPT ![r] = to] /\ LookAsked(to)
    BY <2>1 DEF SubmitEdit, LookAsked
  <2>2. ASSUME NEW book \in Workbooks, SubmitPreview(r, s, book)
        PROVE  \E to : req' = [req EXCEPT ![r] = to] /\ ReadAsked(to)
    <3>1. <<>> \in [{} -> Item]
      OBVIOUS
    <3>2. ReadAsked([at |-> "read", session |-> s, book |-> book, items |-> <<>>])
      BY <3>1 DEF ReadAsked
    <3> QED BY <2>2, <3>2 DEF SubmitPreview
  <2> QED BY <2>1, <2>2
<1>3. Asked(Rows(product'), to)
  BY <1>2 DEF Asked
<1> QED BY <1>1, <1>2, <1>3, Unwritten, TypesMove

LEMMA LookTypes ==
  ASSUME CatalogTypes, NEW r \in Requests, Look(r)
  PROVE  CatalogTypes'
<1>1. UNCHANGED <<allowed, product, price, preview, attempt>> /\ receipts' = {}
  BY DEF Look
<1>2. CASE Ends(r)
  BY <1>1, <1>2, Unwritten, TypesMove DEF Ends, Asked
<1>3. CASE ~Ends(r)
  <2>1. PICK s \in Sessions, edit \in Edits : req[r] = [at |-> "look", session |-> s, edit |-> edit, seen |-> None]
    BY AskedFacts DEF Look, LookAsked, CatalogTypes, RequestTypes
  <2> DEFINE seen == Seen(edit)
             to == [at |-> "write", session |-> s, edit |-> edit, seen |-> seen]
  <2>2. ~NothingToDo(edit, seen) /\ req' = [req EXCEPT ![r].at = "write", ![r].seen = seen]
    BY <1>3, <2>1 DEF Look
  <2>3. req' = [req EXCEPT ![r] = to]
    <3> HIDE DEF seen
    <3>1. req' = [req EXCEPT ![r] = [req[r] EXCEPT !.at = "write", !.seen = seen]]
      BY <2>2 DEF CatalogTypes, RequestTypes
    <3>2. ASSUME NEW q, q = [at |-> "look", session |-> s, edit |-> edit, seen |-> None]
          PROVE  [q EXCEPT !.at = "write", !.seen = seen] = to
      <4> DEFINE new == [q EXCEPT !.at = "write", !.seen = seen]
      <4>1. new \in [at : {"write"}, session : {s}, edit : {edit}, seen : {seen}]
        BY <3>2
      <4> HIDE DEF new
      <4>2. new = [at |-> "write", session |-> s, edit |-> edit, seen |-> seen]
        BY <4>1
      <4> QED BY <4>2 DEF new
    <3> HIDE DEF to
    <3>3. [req[r] EXCEPT !.at = "write", !.seen = seen] = to
      BY <2>1, <3>2
    <3> QED BY <3>1, <3>3
  <2>4. edit.kind # "create" => edit.product \in Rows(product)
    BY <2>2, EditFacts DEF NothingToDo, Rows, CatalogTypes, ProductTypes
  <2>5. seen \in SeenBy(edit)
    <3>1. CASE edit.kind = "create"
      BY <3>1 DEF Seen, SeenBy
    <3>2. CASE edit.kind = "update"
      <4>1. product[edit.product] \in Offers
        BY <2>4, <3>2 DEF Rows, CatalogTypes, ProductTypes
      <4> QED BY <3>2, <4>1 DEF Seen, SeenBy
    <3>3. CASE edit.kind \in {"put", "delete"}
      <4>1. CASE PricesOf(edit.product) = {}
        <5>1. seen = None
          BY <3>3, <4>1 DEF Seen
        <5> HIDE DEF seen
        <5>2. edit.kind # "delete"
          BY <2>2, <5>1 DEF NothingToDo
        <5> QED BY <3>3, <5>1, <5>2 DEF SeenBy
      <4>2. ASSUME NEW k \in PricesOf(edit.product) PROVE seen \in SeenBy(edit)
        <5>1. /\ (CHOOSE j \in PricesOf(edit.product) : TRUE) = k /\ k \in PriceIds /\ price[k].amount \in Amounts
              /\ PricesOf(edit.product) # {}
          BY PriceFacts DEF CatalogTypes, Prices
        <5>2. seen = [id |-> k, amount |-> price[k].amount]
          BY <3>3, <5>1 DEF Seen
        <5> HIDE DEF seen
        <5>3. seen \in PriceSeen
          BY <5>1, <5>2 DEF PriceSeen
        <5> QED BY <3>3, <5>3 DEF SeenBy
      <4> QED BY <4>1, <4>2
    <3> QED BY <3>1, <3>2, <3>3, EditFacts
  <2> HIDE DEF seen
  <2>6. WriteAsked(Rows(product), to)
    BY <2>4, <2>5 DEF WriteAsked
  <2>7. Asked(Rows(product'), to)
    BY <1>1, <2>6 DEF Asked
  <2> HIDE DEF to
  <2> QED BY <1>1, <2>3, <2>7, Unwritten, TypesMove
<1> QED BY <1>2, <1>3


LEMMA InsertTypes ==
  ASSUME PriceTypes, NEW p \in ProductIds, NEW amount \in Amounts, InsertPrice(p, amount)
  PROVE  PriceTypes'
<1> DEFINE row == [product |-> p, amount |-> amount]
<1>1. PICK k \in NextIds(price) : price' = [price EXCEPT ![k] = row]
  BY DEF InsertPrice
<1>2. k \in PriceIds /\ row \in Prices /\ row.product = p
  BY <1>1 DEF NextIds, PriceTypes, Prices
<1>3. \A j \in Rows(price) : price[j].product # p
  BY DEF InsertPrice, PricesOf
<1> HIDE DEF row
<1>4. price' \in [PriceIds -> Prices \cup {None}] /\ \A j \in PriceIds : price'[j] = IF j = k THEN row ELSE price[j]
  BY <1>1, <1>2 DEF PriceTypes
<1> QED BY <1>2, <1>3, <1>4 DEF PriceTypes, Rows

LEMMA PutTypes ==
  ASSUME CatalogTypes, NEW edit \in Edits, NEW seen \in SeenBy(edit), edit.kind # "create" => edit.product \in Rows(product),
         PutPrice(edit, seen)
  PROVE  PriceTypes' /\ UNCHANGED product /\ receipts' \subseteq Told
<1>1. /\ edit.kind = "put" /\ edit.product \in ProductIds /\ edit.amount \in Amounts /\ UNCHANGED product
      /\ seen \in {None} \cup PriceSeen
  BY EditFacts DEF PutPrice, SeenBy
<1>2. CASE seen = None
  <2>1. receipts' = {Receipt(edit.product, None, edit.amount)} /\ InsertPrice(edit.product, edit.amount)
    BY <1>2 DEF PutPrice
  <2> QED BY <1>1, <2>1, InsertTypes DEF CatalogTypes, Told, Receipt
<1>3. CASE seen # None
  <2>1. /\ seen \in PriceSeen /\ price[seen.id] # None /\ price' = [price EXCEPT ![seen.id].amount = edit.amount]
        /\ receipts' = {Receipt(edit.product, seen.amount, edit.amount)}
    BY <1>1, <1>3 DEF PutPrice
  <2>2. /\ seen.id \in PriceIds /\ seen.amount \in Amounts /\ price[seen.id] \in Prices
    BY <2>1 DEF PriceSeen, CatalogTypes, PriceTypes
  <2> DEFINE row == [price[seen.id] EXCEPT !.amount = edit.amount]
  <2>3. row \in Prices /\ row.product = price[seen.id].product
    BY <1>1, <2>2 DEF Prices
  <2>4. price' = [price EXCEPT ![seen.id] = row]
    BY <2>1
  <2> HIDE DEF row
  <2>5. price' \in [PriceIds -> Prices \cup {None}] /\ \A j \in PriceIds : price'[j] = IF j = seen.id THEN row ELSE price[j]
    BY <2>2, <2>3, <2>4 DEF CatalogTypes, PriceTypes
  <2>6. PriceTypes'
    BY <2>1, <2>2, <2>3, <2>5 DEF CatalogTypes, PriceTypes, Rows
  <2>7. receipts' \subseteq Told
    BY <1>1, <2>1, <2>2 DEF Told, Receipt
  <2> QED BY <1>1, <2>6, <2>7
<1> QED BY <1>2, <1>3

LEMMA DeleteTypes ==
  ASSUME CatalogTypes, NEW edit \in Edits, NEW seen \in SeenBy(edit), DeletePrice(edit, seen)
  PROVE  PriceTypes' /\ UNCHANGED product /\ receipts' \subseteq Told
<1>1. /\ edit.kind = "delete" /\ edit.product \in ProductIds /\ UNCHANGED product /\ seen \in PriceSeen
      /\ price' = [price EXCEPT ![seen.id] = None] /\ receipts' = {Receipt(edit.product, seen.amount, None)}
  BY EditFacts DEF DeletePrice, SeenBy
<1>2. seen.id \in PriceIds /\ seen.amount \in Amounts
  BY <1>1 DEF PriceSeen
<1>3. PriceTypes'
  <2>1. price' \in [PriceIds -> Prices \cup {None}] /\ \A j \in PriceIds : price'[j] = IF j = seen.id THEN None ELSE price[j]
    BY <1>1, <1>2 DEF CatalogTypes, PriceTypes
  <2> QED BY <2>1 DEF CatalogTypes, PriceTypes, Rows
<1> QED BY <1>1, <1>2, <1>3 DEF Told, Receipt

(* One product is written under a name that no other one has.              *)
LEMMA OneProduct ==
  ASSUME ProductTypes, NEW p \in ProductIds, NEW row \in Offers, product' = [product EXCEPT ![p] = row],
         \A q \in Rows(product) \ {p} : product[q].name # row.name
  PROVE  ProductTypes' /\ Rows(product) \subseteq Rows(product')
<1>1. row # None
  BY CatalogAssumption DEF Offers
<1>2. /\ product' \in [ProductIds -> Offers \cup {None}]
      /\ \A q \in ProductIds : product'[q] = IF q = p THEN row ELSE product[q]
  BY DEF ProductTypes
<1>3. Rows(product') = Rows(product) \cup {p} /\ Rows(product) \subseteq ProductIds
  BY <1>1, <1>2 DEF Rows, ProductTypes
<1>4. ASSUME NEW i \in Rows(product'), NEW j \in Rows(product'), product'[i].name = product'[j].name PROVE i = j
  <2>1. \A q \in Rows(product) : q # p => product'[q] = product[q] /\ product[q].name # row.name
    BY <1>2, <1>3
  <2>2. product'[p] = row
    BY <1>2
  <2>3. CASE i = p
    BY <1>3, <1>4, <2>1, <2>2, <2>3
  <2>4. CASE j = p
    BY <1>3, <1>4, <2>1, <2>2, <2>4
  <2>5. CASE i # p /\ j # p
    <3>1. i \in Rows(product) /\ j \in Rows(product) /\ product[i].name = product[j].name
      BY <1>3, <1>4, <2>1, <2>5
    <3> QED BY <3>1 DEF ProductTypes
  <2> QED BY <2>3, <2>4, <2>5
<1> QED BY <1>2, <1>3, <1>4 DEF ProductTypes, Rows

LEMMA UpdateTypes ==
  ASSUME CatalogTypes, NEW edit \in Edits, NEW seen \in SeenBy(edit), edit.kind # "create" => edit.product \in Rows(product),
         UpdateProduct(edit, seen)
  PROVE  ProductTypes' /\ Rows(product) \subseteq Rows(product') /\ UNCHANGED price /\ receipts' = {}
<1> DEFINE p == edit.product
           name == IF edit.name # seen.name THEN edit.name ELSE product[p].name
           active == IF edit.active # seen.active THEN edit.active ELSE product[p].active
           row == [name |-> name, active |-> active]
<1>1. /\ edit.kind = "update" /\ p \in ProductIds /\ p \in Rows(product) /\ edit.name \in Names /\ edit.active \in BOOLEAN
      /\ UNCHANGED price /\ receipts' = {}
  BY EditFacts DEF UpdateProduct
<1>2. product[p] \in Offers /\ product[p] = [name |-> product[p].name, active |-> product[p].active]
  BY <1>1 DEF CatalogTypes, ProductTypes, Rows, Offers
<1>3. row \in Offers /\ row.name = name
  BY <1>1, <1>2 DEF Offers
<1>4. product' = [product EXCEPT ![p] = row]
  <2>1. product' = [product EXCEPT ![p].name = IF edit.name # seen.name THEN edit.name ELSE @,
                                   ![p].active = IF edit.active # seen.active THEN edit.active ELSE @]
    BY DEF UpdateProduct
  <2>2. product' = [product EXCEPT ![p] = [product[p] EXCEPT !.name = IF edit.name # seen.name THEN edit.name ELSE @,
                                                            !.active = IF edit.active # seen.active THEN edit.active ELSE @]]
    BY <1>1, <2>1 DEF CatalogTypes, ProductTypes
  <2>3. [product[p] EXCEPT !.name = name, !.active = active] = [name |-> name, active |-> active]
    <3> HIDE DEF name, active
    <3> DEFINE new == [product[p] EXCEPT !.name = name, !.active = active]
    <3>1. new \in [name : {name}, active : {active}]
      BY <1>2
    <3> HIDE DEF new
    <3>2. new = [name |-> name, active |-> active]
      BY <3>1
    <3> QED BY <3>2 DEF new
  <2> QED BY <2>2, <2>3
<1>5. \A q \in Rows(product) \ {p} : product[q].name # name
  BY <1>1 DEF UpdateProduct, NameTaken, CatalogTypes, ProductTypes
<1> HIDE DEF row, name, active, p
<1> QED BY <1>1, <1>3, <1>4, <1>5, OneProduct DEF CatalogTypes

LEMMA CreateTypes ==
  ASSUME CatalogTypes, NEW edit \in Edits, CreateProduct(edit)
  PROVE  ProductTypes' /\ Rows(product) \subseteq Rows(product') /\ UNCHANGED price /\ receipts' = {}
<1> DEFINE row == [name |-> edit.name, active |-> TRUE]
<1>1. edit.kind = "create" /\ edit.name \in Names /\ UNCHANGED price /\ receipts' = {}
  BY EditFacts DEF CreateProduct
<1>2. PICK i \in NextIds(product) : product' = [product EXCEPT ![i] = row]
  BY DEF CreateProduct
<1>3. i \in ProductIds /\ row \in Offers /\ row.name = edit.name
  BY <1>1, <1>2 DEF NextIds, CatalogTypes, ProductTypes, Offers
<1>4. None \notin Rows(product)
  BY CatalogAssumption DEF Rows, CatalogTypes, ProductTypes
<1>5. \A q \in Rows(product) \ {i} : product[q].name # edit.name
  BY <1>4 DEF CreateProduct, NameTaken
<1> HIDE DEF row
<1> QED BY <1>1, <1>2, <1>3, <1>5, OneProduct DEF CatalogTypes

LEMMA WriteTypes ==
  ASSUME CatalogTypes, NEW r \in Requests, Write(r) \/ EditFails(r)
  PROVE  CatalogTypes'
<1>1. CASE EditFails(r)
  BY <1>1, Unwritten, TypesMove DEF EditFails, Ends, Asked
<1>2. CASE Write(r)
  <2>1. PICK s \in Sessions, edit \in Edits : \E seen \in SeenBy(edit) :
          /\ req[r] = [at |-> "write", session |-> s, edit |-> edit, seen |-> seen]
          /\ edit.kind # "create" => edit.product \in Rows(product)
    BY <1>2, AskedFacts DEF Write, WriteAsked, CatalogTypes, RequestTypes
  <2>2. PICK seen \in SeenBy(edit) : req[r] = [at |-> "write", session |-> s, edit |-> edit, seen |-> seen]
    BY <2>1
  <2>3. req[r].edit = edit /\ req[r].seen = seen /\ (edit.kind # "create" => edit.product \in Rows(product))
    BY <2>1, <2>2
  <2>4. Ends(r) /\ UNCHANGED <<allowed, preview, attempt>>
    BY <1>2 DEF Write
  <2>5. ProductTypes' /\ Rows(product) \subseteq Rows(product') /\ PriceTypes' /\ receipts' \subseteq Told
    <3>1. PutPrice(edit, seen) \/ DeletePrice(edit, seen) \/ UpdateProduct(edit, seen) \/ CreateProduct(edit)
      BY <1>2, <2>3 DEF Write
    <3>2. CASE PutPrice(edit, seen)
      BY <2>3, <3>2, PutTypes, Unwritten
    <3>3. CASE DeletePrice(edit, seen)
      BY <3>3, DeleteTypes, Unwritten
    <3>4. CASE UpdateProduct(edit, seen)
      BY <2>3, <3>4, UpdateTypes, Unwritten
    <3>5. CASE CreateProduct(edit)
      BY <3>5, CreateTypes, Unwritten
    <3> QED BY <3>1, <3>2, <3>3, <3>4, <3>5
  <2> QED BY <2>4, <2>5, Unwritten, TypesMove DEF Ends, Asked
<1> QED BY <1>1, <1>2

(* The store of previews: what is added counts against its limit.          *)
LEMMA StoreTypes ==
  ASSUME PreviewTypes, preview' = [id \in PreviewIds |-> preview'[id]],
         \A id \in PreviewIds : preview'[id] \in {preview[id], Gone} \/ Kept(preview'[id]),
         NEW bound, InState({"pending"})' \subseteq bound, IsFiniteSet(bound), Cardinality(bound) <= MaxPending
  PROVE  PreviewTypes'
<1>1. IsFiniteSet(InState({"pending"})') /\ Cardinality(InState({"pending"})') <= Cardinality(bound)
  BY FS_Subset
<1>2. Cardinality(InState({"pending"})') \in Nat /\ Cardinality(bound) \in Nat /\ MaxPending \in Nat
  BY <1>1, FS_CardinalityType, CatalogAssumption
<1>3. \A id \in PreviewIds : preview'[id] \in {None, Gone} \/ Kept(preview'[id])
  BY DEF PreviewTypes
<1> QED BY <1>1, <1>2, <1>3 DEF PreviewTypes

LEMMA FewerTypes ==
  ASSUME PreviewTypes, preview' = [id \in PreviewIds |-> preview'[id]],
         \A id \in PreviewIds : preview'[id] \in {preview[id], Gone} \/ (Kept(preview'[id]) /\ preview'[id].state # "pending")
  PROVE  PreviewTypes'
<1>1. InState({"pending"})' \subseteq InState({"pending"})
  <2> SUFFICES ASSUME NEW id \in PreviewIds, preview'[id] # None, preview'[id].state = "pending"
               PROVE  id \in PreviewIds /\ preview[id] # None /\ preview[id].state = "pending"
    BY DEF InState, Rows, PreviewTypes
  <2>1. Gone.state # "pending"
    BY DEF Gone
  <2> QED BY <2>1
<1> QED BY <1>1, StoreTypes DEF PreviewTypes

LEMMA ReadRowFacts ==
  ASSUME PriceTypes, NEW p, NEW row
  PROVE  ReadRow(p, row) \in Item
  BY PriceFacts DEF ReadRow, Item

LEMMA CompareTypes ==
  ASSUME CatalogTypes, NEW r \in Requests, NEW p \in ProductIds, Compare(r, p)
  PROVE  CatalogTypes'
<1>1. UNCHANGED <<allowed, product, price, preview, attempt>> /\ receipts' = {} /\ req[r].at = "read"
  BY DEF Compare
<1>2. PICK s \in Sessions, book \in Workbooks : \E some \in SUBSET DOMAIN book : \E items \in [some -> Item] :
        req[r] = [at |-> "read", session |-> s, book |-> book, items |-> items]
  BY <1>1, AskedFacts DEF ReadAsked, CatalogTypes, RequestTypes
<1>3. PICK some \in SUBSET DOMAIN book : \E items \in [some -> Item] :
        req[r] = [at |-> "read", session |-> s, book |-> book, items |-> items]
  BY <1>2
<1>4. PICK items \in [some -> Item] : req[r] = [at |-> "read", session |-> s, book |-> book, items |-> items]
  BY <1>3
<1> DEFINE more == [q \in some \cup {p} |-> IF q = p THEN ReadRow(p, book[p]) ELSE items[q]]
           to == [at |-> "read", session |-> s, book |-> book, items |-> more]
<1>5. p \in DOMAIN book /\ some \cup {p} \in SUBSET DOMAIN book
  BY <1>4 DEF Compare
<1>6. more \in [some \cup {p} -> Item]
  BY ReadRowFacts DEF CatalogTypes
<1>7. req' = [req EXCEPT ![r] = to]
  <2>1. req' = [req EXCEPT ![r].items = [q \in DOMAIN req[r].items \cup {p} |->
                                          IF q = p THEN ReadRow(p, req[r].book[p]) ELSE req[r].items[q]]]
    BY DEF Compare
  <2>2. [q \in DOMAIN req[r].items \cup {p} |-> IF q = p THEN ReadRow(p, req[r].book[p]) ELSE req[r].items[q]] = more
    BY <1>4
  <2> HIDE DEF more
  <2>3. req' = [req EXCEPT ![r] = [req[r] EXCEPT !.items = more]]
    BY <2>1, <2>2
  <2>4. [req[r] EXCEPT !.items = more] = to
    BY <1>4
  <2> QED BY <2>3, <2>4
<1> HIDE DEF more
<1>8. Asked(Rows(product'), to)
  BY <1>5, <1>6 DEF Asked, ReadAsked
<1> HIDE DEF to
<1> QED BY <1>1, <1>7, <1>8, Unwritten, TypesMove

LEMMA PutPreviewTypes ==
  ASSUME CatalogTypes, NEW r \in Requests, Put(r)
  PROVE  CatalogTypes'
<1>1. UNCHANGED <<allowed, product, price, attempt>> /\ receipts' = {} /\ req[r].at = "read" /\ Ends(r)
  BY DEF Put
<1>2. CASE preview' \in {Purged, preview}
  <2>1. PreviewTypes'
    BY <1>2, PurgedFacts, FewerTypes, Unwritten DEF CatalogTypes, PreviewTypes
  <2> QED BY <1>1, <2>1, Unwritten, TypesMove DEF Ends, Asked
<1>3. CASE preview' \notin {Purged, preview}
  <2>1. PICK s \in Sessions, book \in Workbooks : \E some \in SUBSET DOMAIN book : \E items \in [some -> Item] :
          req[r] = [at |-> "read", session |-> s, book |-> book, items |-> items]
    BY <1>1, AskedFacts DEF ReadAsked, CatalogTypes, RequestTypes
  <2>2. PICK items : req[r] = [at |-> "read", session |-> s, book |-> book, items |-> items] /\ \E some : items \in [some -> Item]
    BY <2>1
  <2> DEFINE entry == [state |-> "pending", session |-> s, book |-> book, items |-> items]
  <2>3. /\ req[r].items = items /\ req[r].book = book /\ req[r].session = s
        /\ DOMAIN items = DOMAIN book /\ Valid(items) /\ Cardinality(InState({"pending"})) < MaxPending
    BY <1>3, <2>2 DEF Put
  <2>4. PICK id \in PreviewIds \ Rows(preview) : preview' = [Purged EXCEPT ![id] = entry]
    BY <1>3, <2>3 DEF Put
  <2>5. Kept(entry)
    <3>1. Sound(items, book)
      BY <2>2, <2>3 DEF Sound
    <3> QED BY <3>1 DEF Kept
  <2> HIDE DEF entry
  <2>6. /\ preview' = [i \in PreviewIds |-> preview'[i]] /\ preview'[id] = entry
        /\ \A i \in PreviewIds \ {id} : preview'[i] \in {preview[i], Gone}
    BY <2>4, PurgedFacts DEF CatalogTypes
  <2> DEFINE bound == InState({"pending"}) \cup {id}
  <2>7. InState({"pending"})' \subseteq bound
    <3> SUFFICES ASSUME NEW i \in PreviewIds, preview'[i] # None, preview'[i].state = "pending", i # id
                 PROVE  preview[i] # None /\ preview[i].state = "pending"
      BY <2>6 DEF InState, Rows, CatalogTypes, PreviewTypes
    <3>1. Gone.state # "pending"
      BY DEF Gone
    <3> QED BY <2>6, <3>1
  <2>8. IsFiniteSet(bound) /\ Cardinality(bound) <= MaxPending
    <3>1. IsFiniteSet(InState({"pending"})) /\ Cardinality(InState({"pending"})) \in Nat /\ MaxPending \in Nat
      BY FS_CardinalityType, CatalogAssumption DEF CatalogTypes, PreviewTypes
    <3>2. id \notin InState({"pending"})
      BY DEF InState
    <3>3. IsFiniteSet(bound) /\ Cardinality(bound) = Cardinality(InState({"pending"})) + 1
      BY <3>1, <3>2, FS_AddElement
    <3> QED BY <2>3, <3>1, <3>3
  <2> HIDE DEF bound
  <2>9. PreviewTypes'
    BY <2>5, <2>6, <2>7, <2>8, StoreTypes DEF CatalogTypes
  <2> QED BY <1>1, <2>9, Unwritten, TypesMove DEF Ends, Asked
<1> QED BY <1>2, <1>3

LEMMA TakeTypes ==
  ASSUME CatalogTypes, NEW r \in Requests, NEW s \in Sessions, NEW id \in PreviewIds, Take(r, s, id)
  PROVE  CatalogTypes'
<1>1. UNCHANGED <<allowed, product, price, attempt>> /\ receipts' = {}
  BY DEF Take
<1>2. CASE ~Takes(s, id)
  <2>1. preview' = Purged /\ UNCHANGED req
    BY <1>2 DEF Take
  <2>2. PreviewTypes'
    BY <2>1, PurgedFacts, FewerTypes DEF CatalogTypes
  <2>3. RequestTypes'
    BY <1>1, <2>1 DEF CatalogTypes, RequestTypes
  <2> QED BY <1>1, <2>2, <2>3, Unwritten DEF CatalogTypes
<1>3. CASE Takes(s, id)
  <2>1. preview[id] # None /\ preview[id].state = "pending"
    BY <1>3 DEF Takes, InState, Rows
  <2>2. Kept(preview[id])
    BY <2>1 DEF CatalogTypes, PreviewTypes, Gone
  <2>3. Sound(preview[id].items, preview[id].book) /\ preview[id].book \in Workbooks
    BY <2>2 DEF Kept
  <2> DEFINE to == [at |-> "confirm", session |-> s, id |-> id, book |-> preview[id].book, items |-> preview[id].items]
  <2>4. req' = [req EXCEPT ![r] = to] /\ preview' = [Purged EXCEPT ![id] = Gone]
    BY <1>3 DEF Take, Popped
  <2>5. PreviewTypes'
    <3>1. preview' = [i \in PreviewIds |-> preview'[i]] /\ \A i \in PreviewIds : preview'[i] \in {preview[i], Gone}
      BY <2>4, PurgedFacts DEF CatalogTypes
    <3> QED BY <3>1, FewerTypes DEF CatalogTypes
  <2>6. Asked(Rows(product'), to)
    BY <2>3 DEF Asked, ConfirmAsked
  <2> HIDE DEF to
  <2> QED BY <1>1, <2>4, <2>5, <2>6, Unwritten, TypesMove
<1> QED BY <1>2, <1>3

(* What the environment does, and a confirmation that imports nothing.     *)
LEMMA OtherTypes ==
  ASSUME CatalogTypes, (\E u \in Users : Demote(u)) \/ (\E id \in PreviewIds : Expire(id)) \/ Restart
  PROVE  CatalogTypes'
<1>1. CASE \E u \in Users : Demote(u)
  <2>1. RestTypes'
    BY <1>1 DEF Demote, CatalogTypes, RestTypes
  <2>2. UNCHANGED <<product, price, preview, req>>
    BY <1>1 DEF Demote
  <2> QED BY <2>1, <2>2, Unwritten DEF CatalogTypes, RequestTypes
<1>2. ASSUME NEW id \in PreviewIds, Expire(id) PROVE CatalogTypes'
  <2> DEFINE entry == [preview[id] EXCEPT !.state = "expired"]
  <2>1. preview' = [preview EXCEPT ![id] = entry] /\ UNCHANGED <<allowed, product, price, attempt, req>> /\ receipts' = {}
    BY <1>2 DEF Expire
  <2>2. Kept(preview[id])
    BY <1>2 DEF Expire, InState, Rows, CatalogTypes, PreviewTypes, Gone
  <2>3. Kept(entry) /\ entry.state = "expired"
    <3>1. PICK state \in {"pending", "expired"}, s \in Sessions, book \in Workbooks : \E items :
            Sound(items, book) /\ preview[id] = [state |-> state, session |-> s, book |-> book, items |-> items]
      BY <2>2 DEF Kept
    <3>2. PICK items : Sound(items, book) /\ preview[id] = [state |-> state, session |-> s, book |-> book, items |-> items]
      BY <3>1
    <3>3. entry = [state |-> "expired", session |-> s, book |-> book, items |-> items]
      BY <3>2
    <3> HIDE DEF entry
    <3> QED BY <3>2, <3>3 DEF Kept
  <2> HIDE DEF entry
  <2>4. PreviewTypes'
    <3>1. preview' = [i \in PreviewIds |-> preview'[i]] /\ preview'[id] = entry /\ \A i \in PreviewIds \ {id} : preview'[i] = preview[i]
      BY <2>1 DEF CatalogTypes, PreviewTypes
    <3> QED BY <2>3, <3>1, FewerTypes DEF CatalogTypes
  <2> QED BY <2>1, <2>4, Unwritten DEF CatalogTypes, RequestTypes
<1>3. CASE Restart
  <2>1. /\ preview' = [id \in PreviewIds |-> IF id \in InState({"pending", "expired"}) THEN Gone ELSE preview[id]]
        /\ req' = [r \in Requests |-> Idle] /\ UNCHANGED <<allowed, product, price, attempt>> /\ receipts' = {}
    BY <1>3 DEF Restart
  <2>2. PreviewTypes'
    BY <2>1, FewerTypes DEF CatalogTypes
  <2>3. RequestTypes'
    BY <2>1 DEF RequestTypes, Asked
  <2> QED BY <2>1, <2>2, <2>3, Unwritten DEF CatalogTypes
<1> QED BY <1>1, <1>2, <1>3

LEMMA RefusedTypes ==
  ASSUME CatalogTypes, NEW r \in Requests, Refuse(r) \/ ConfirmFails(r) \/ RecordFailure(r)
  PROVE  CatalogTypes'
<1>1. CASE Refuse(r) \/ ConfirmFails(r)
  <2>1. req[r].at = "confirm" /\ UNCHANGED <<allowed, product, price, preview, attempt>> /\ receipts' = {}
    BY <1>1 DEF Refuse, ConfirmFails
  <2>2. PICK status \in {"rejected", "failed"} : ToRecord(r, status)
    BY <1>1 DEF Refuse, ConfirmFails
  <2>3. req[r].session \in Sessions /\ req[r].id \in PreviewIds
    BY <2>1, AskedFacts DEF ConfirmAsked, CatalogTypes, RequestTypes
  <2> DEFINE to == [at |-> "record", session |-> req[r].session, id |-> req[r].id, status |-> status]
  <2>4. req' = [req EXCEPT ![r] = to]
    BY <2>2 DEF ToRecord
  <2>5. Asked(Rows(product'), to)
    BY <2>3 DEF Asked, RecordAsked
  <2> HIDE DEF to
  <2> QED BY <2>1, <2>4, <2>5, Unwritten, TypesMove
<1>2. CASE RecordFailure(r)
  <2>1. req[r].at = "record" /\ Ends(r) /\ UNCHANGED <<allowed, product, price, preview>> /\ receipts' = {}
    BY <1>2 DEF RecordFailure
  <2>2. req[r].status \in {"rejected", "failed"}
    BY <2>1, AskedFacts DEF RecordAsked, CatalogTypes, RequestTypes
  <2>3. RestTypes'
    BY <1>2, <2>1, <2>2 DEF RecordFailure, CatalogTypes, RestTypes
  <2> QED BY <2>1, <2>3, Unwritten, TypesMove DEF Ends, Asked
<1> QED BY <1>1, <1>2

LEMMA BookFacts ==
  ASSUME NEW book \in Workbooks
  PROVE  /\ DOMAIN book \subseteq ProductIds
         /\ \A p \in DOMAIN book : book[p].amount \in Amounts
<1>1. PICK ids \in SUBSET ProductIds : book \in [ids -> [name : Names, amount : Amounts]]
  BY CatalogAssumption
<1> QED BY <1>1

LEMMA PriceFactsHold ==
  PriceTypes => \A p : /\ \A k \in PricesOf(p) : AmountOf(p) = price[k].amount
                       /\ PricesOf(p) = {} => AmountOf(p) = None
  BY PriceFacts
LEMMA NextPriceFacts ==
  (PriceTypes => \A p : /\ \A k \in PricesOf(p) : AmountOf(p) = price[k].amount
                        /\ PricesOf(p) = {} => AmountOf(p) = None)'
  BY PriceFactsHold, PTL

(* An import writes one row for each price that changes, and no other.     *)
LEMMA ImportFacts ==
  ASSUME PriceTypes, NEW book \in Workbooks, ImportPrices(book)
  PROVE  /\ PriceTypes' /\ receipts' \subseteq Told /\ receipts' = Imported(book)
         /\ \A p \in ProductIds : AmountOf(p)' = IF p \in DOMAIN book THEN book[p].amount ELSE AmountOf(p)
<1> DEFINE changed == Changed(book)
           new == {p \in changed : PricesOf(p) = {}}
           above == {k \in PriceIds : \A j \in Rows(price) : j < k}
           next == {k \in above : Cardinality({j \in above : j <= k}) <= Cardinality(new)}
<1>1. PICK row \in [new -> next] :
        /\ \A p, q \in new : row[p] = row[q] => p = q
        /\ price' = [k \in PriceIds |->
             LET mine == {p \in Changed(book) : IF p \in new THEN row[p] = k ELSE k \in PricesOf(p)}
             IN  IF mine = {} THEN price[k]
                 ELSE LET p == CHOOSE p \in mine : TRUE
                      IN  [product |-> p, amount |-> book[p].amount]]
        /\ receipts' = Imported(book)
  BY DEF ImportPrices
<1> DEFINE mine(k) == {p \in changed : IF p \in new THEN row[p] = k ELSE k \in PricesOf(p)}
<1>2. /\ changed \subseteq DOMAIN book /\ \A p \in DOMAIN book : p \in ProductIds /\ book[p].amount \in Amounts
      /\ \A p \in DOMAIN book \ changed : AmountOf(p) = book[p].amount
  BY BookFacts DEF Changed
<1>3. \A p \in new : row[p] \in PriceIds /\ row[p] \notin Rows(price)
  <2>1. \A k \in above : k \in PriceIds /\ k \notin Rows(price)
    <3>1. \A k \in PriceIds : k \in Nat /\ ~(k < k)
      BY CatalogAssumption
    <3> QED BY <3>1
  <2>2. \A p \in new : row[p] \in above
    OBVIOUS
  <2> QED BY <2>1, <2>2
<1>4. \A p, k : k \in PricesOf(p) <=> k \in Rows(price) /\ price[k].product = p
  BY DEF PricesOf
<1> HIDE DEF changed
<1>5. \A k : \A p, q \in mine(k) : p = q
  <2> SUFFICES ASSUME NEW k, NEW p \in mine(k), NEW q \in mine(k) PROVE p = q
    OBVIOUS
  <2>1. CASE p \in new /\ q \in new
    BY <1>1, <2>1
  <2>2. CASE p \notin new /\ q \notin new
    BY <1>4, <2>2
  <2>3. CASE (p \in new) # (q \in new)
    BY <1>3, <1>4, <2>3
  <2> QED BY <2>1, <2>2, <2>3
<1>6. \A p \in changed : \E k \in PriceIds : p \in mine(k)
  <2> SUFFICES ASSUME NEW p \in changed PROVE \E k \in PriceIds : p \in mine(k)
    OBVIOUS
  <2>1. CASE p \in new
    BY <1>3, <2>1
  <2>2. CASE p \notin new
    BY <2>2, PriceFacts
  <2> QED BY <2>1, <2>2
<1>7. \A p, j, k : p \in mine(j) /\ p \in mine(k) => j = k
  <2> SUFFICES ASSUME NEW p, NEW j, NEW k, p \in mine(j), p \in mine(k) PROVE j = k
    OBVIOUS
  <2>1. CASE p \in new
    BY <2>1
  <2>2. CASE p \notin new
    BY <2>2, PriceFacts
  <2> QED BY <2>1, <2>2
<1>8. \A k \in Rows(price) : /\ mine(k) = {} => price[k].product \notin changed
                             /\ \A p \in mine(k) : price[k].product = p
  <2> SUFFICES ASSUME NEW k \in Rows(price)
               PROVE  /\ price[k].product \in changed => price[k].product \in mine(k)
                      /\ \A p \in mine(k) : price[k].product = p
    OBVIOUS
  <2>1. k \in PricesOf(price[k].product) /\ price[k].product \notin new
    BY <1>4
  <2>2. \A p \in mine(k) : p \notin new /\ k \in PricesOf(p)
    BY <1>3
  <2> QED BY <1>4, <2>1, <2>2
<1>9. price' = [k \in PriceIds |-> price'[k]]
  BY <1>1
<1>10. \A k \in PriceIds : mine(k) = {} => price'[k] = price[k]
  BY <1>1 DEF changed
<1>11. \A k \in PriceIds : \A p \in mine(k) : price'[k] = [product |-> p, amount |-> book[p].amount]
  <2> SUFFICES ASSUME NEW k \in PriceIds, NEW p \in mine(k) PROVE price'[k] = [product |-> p, amount |-> book[p].amount]
    OBVIOUS
  <2>1. price'[k] = LET q == CHOOSE q \in mine(k) : TRUE IN [product |-> q, amount |-> book[q].amount]
    BY <1>1 DEF changed
  <2>2. mine(k) = {p}
    BY <1>5
  <2> HIDE DEF mine
  <2>3. (CHOOSE q \in mine(k) : TRUE) = p
    BY <2>2
  <2> QED BY <2>1, <2>3
<1> HIDE DEF mine
<1>12. \A k \in PriceIds : \A p \in mine(k) : p \in changed /\ p \in ProductIds /\ price'[k] \in Prices /\ price'[k].product = p
                                            /\ price'[k].amount = book[p].amount /\ price'[k] # None
  <2> SUFFICES ASSUME NEW k \in PriceIds, NEW p \in mine(k)
               PROVE  /\ p \in changed /\ p \in ProductIds /\ price'[k] \in Prices /\ price'[k].product = p
                      /\ price'[k].amount = book[p].amount /\ price'[k] # None
    OBVIOUS
  <2>1. p \in changed /\ p \in ProductIds /\ book[p].amount \in Amounts
    BY <1>2 DEF mine
  <2>2. price'[k] = [product |-> p, amount |-> book[p].amount]
    BY <1>11
  <2>3. price'[k] \in Prices
    BY <2>1, <2>2 DEF Prices
  <2> QED BY <2>1, <2>2, <2>3, CatalogAssumption DEF Prices
<1>13. \A k \in PriceIds : price[k] \in Prices \cup {None} /\ (price[k] # None <=> k \in Rows(price))
  BY DEF PriceTypes, Rows
<1>14. PriceTypes'
  <2>1. price' \in [PriceIds -> Prices \cup {None}]
    BY <1>9, <1>10, <1>12, <1>13
  <2>2. ASSUME NEW j \in PriceIds, NEW k \in PriceIds, price'[j] # None, price'[k] # None, price'[j].product = price'[k].product
        PROVE  j = k
    <3>1. CASE mine(j) # {} /\ mine(k) # {}
      BY <1>7, <1>12, <2>2, <3>1
    <3>2. CASE mine(j) = {} /\ mine(k) = {}
      <4>1. price'[j] = price[j] /\ price'[k] = price[k]
        BY <1>10, <3>2
      <4> QED BY <2>2, <4>1 DEF PriceTypes, Rows
    <3>3. CASE mine(j) # {} /\ mine(k) = {}
      BY <1>8, <1>10, <1>12, <1>13, <2>2, <3>3
    <3>4. CASE mine(j) = {} /\ mine(k) # {}
      BY <1>8, <1>10, <1>12, <1>13, <2>2, <3>4
    <3> QED BY <3>1, <3>2, <3>3, <3>4
  <2>3. Rows(price)' = {k \in PriceIds : price'[k] # None}
    BY <1>9 DEF Rows
  <2> QED BY <2>1, <2>2, <2>3 DEF PriceTypes
<1>15. \A p, k : k \in PricesOf(p)' <=> k \in PriceIds /\ price'[k] # None /\ price'[k].product = p
  BY <1>9 DEF PricesOf, Rows
<1>16. ASSUME NEW p \in changed PROVE AmountOf(p)' = book[p].amount
  <2>1. PICK k \in PriceIds : p \in mine(k)
    BY <1>6
  <2>2. k \in PricesOf(p)'
    BY <1>12, <1>15, <2>1
  <2> QED BY <1>12, <1>14, <2>1, <2>2, NextPriceFacts
<1>17. ASSUME NEW p \in ProductIds \ changed PROVE AmountOf(p)' = AmountOf(p)
  <2>1. \A k : k \in PricesOf(p)' <=> k \in PricesOf(p)
    <3>1. ASSUME NEW k, k \in PricesOf(p) PROVE k \in PricesOf(p)'
      <4>1. k \in PriceIds /\ k \in Rows(price) /\ price[k].product = p
        BY <3>1, <1>4, PriceFacts
      <4>2. mine(k) = {}
        BY <1>8, <1>12, <4>1
      <4> QED BY <1>10, <1>13, <1>15, <4>1, <4>2
    <3>2. ASSUME NEW k, k \in PricesOf(p)' PROVE k \in PricesOf(p)
      <4>1. k \in PriceIds /\ price'[k] # None /\ price'[k].product = p
        BY <1>15, <3>2
      <4>2. mine(k) = {}
        BY <1>12, <4>1
      <4> QED BY <1>4, <1>10, <1>13, <4>1, <4>2
    <3> QED BY <3>1, <3>2
  <2>2. \A k \in PricesOf(p) : price'[k] = price[k]
    <3> SUFFICES ASSUME NEW k \in PricesOf(p) PROVE price'[k] = price[k]
      OBVIOUS
    <3>1. k \in PriceIds /\ k \in Rows(price) /\ price[k].product = p
      BY <1>4, PriceFacts
    <3>2. mine(k) = {}
      BY <1>8, <1>12, <3>1
    <3> QED BY <1>10, <3>1, <3>2
  <2>3. CASE PricesOf(p) = {}
    <3>1. PricesOf(p)' = {}
      BY <2>1, <2>3
    <3> QED BY <1>14, <2>3, <3>1, PriceFacts, NextPriceFacts
  <2>4. ASSUME NEW k \in PricesOf(p) PROVE AmountOf(p)' = AmountOf(p)
    <3>1. k \in PricesOf(p)' /\ price'[k] = price[k]
      BY <2>1, <2>2
    <3> QED BY <1>14, <3>1, PriceFacts, NextPriceFacts
  <2> QED BY <2>3, <2>4
<1>18. receipts' \subseteq Told /\ receipts' = Imported(book)
  <2>1. \A p \in changed : Receipt(p, AmountOf(p), book[p].amount) \in Told
    BY <1>2, PriceFacts DEF Receipt, Told
  <2>2. receipts' = {Receipt(p, AmountOf(p), book[p].amount) : p \in changed}
    BY <1>1 DEF Imported, changed
  <2> QED BY <1>1, <2>1, <2>2
<1> QED BY <1>2, <1>14, <1>16, <1>17, <1>18

LEMMA ConfirmTypes ==
  ASSUME CatalogTypes, NEW r \in Requests, Confirm(r)
  PROVE  CatalogTypes'
<1>1. Asked(Rows(product), req[r]) /\ req[r].at = "confirm"
  BY DEF Confirm, CatalogTypes, RequestTypes
<1>2. req[r].book \in Workbooks /\ req[r].id \in PreviewIds
  BY <1>1, AskedFacts DEF ConfirmAsked
<1>3. PriceTypes' /\ receipts' \subseteq Told
  BY <1>2, ImportFacts DEF Confirm, CatalogTypes
<1>4. UNCHANGED <<allowed, product, preview>> /\ Ends(r) /\ attempt' = [attempt EXCEPT ![req[r].id] = "success"]
  BY DEF Confirm
<1>5. RestTypes'
  BY <1>2, <1>3, <1>4 DEF CatalogTypes, RestTypes
<1> QED BY <1>3, <1>4, <1>5, Unwritten, TypesMove DEF Ends, Asked

LEMMA TypesStep == CatalogTypes /\ [Next]_vars => CatalogTypes'
<1> SUFFICES ASSUME CatalogTypes, [Next]_vars PROVE CatalogTypes'
  OBVIOUS
<1>1. ASSUME NEW r \in Requests, Asks(r) PROVE CatalogTypes'
  BY <1>1, SubmitTypes, TakeTypes DEF Asks, AsksIn
<1>2. ASSUME NEW r \in Requests, Serve(r) PROVE CatalogTypes'
  BY <1>2, LookTypes, WriteTypes, CompareTypes, PutPreviewTypes, ConfirmTypes, RefusedTypes DEF Serve
<1>3. CASE UNCHANGED vars
  <2>1. UNCHANGED <<allowed, product, price, receipts, preview, attempt, req>>
    BY <1>3 DEF vars
  <2> QED BY <2>1, Unwritten DEF CatalogTypes, RequestTypes, RestTypes
<1> QED BY <1>1, <1>2, <1>3, OtherTypes DEF Next

(* Two products never have one name, and a product never two prices,       *)
(* whoever writes at once; the store of previews keeps its limit (admin-   *)
(* commercial_service.py, AdminPriceImportPendingStore).                   *)
THEOREM CatalogTypeSafety == Spec => []TypeOK
  BY TypesStart, TypesStep, TypesSuffice, PTL DEF Spec

-----------------------------------------------------------------------------
(* What a confirmation finds and leaves.                                   *)
LEMMA ConfirmFacts ==
  ASSUME CatalogTypes, NEW r \in Requests, Confirm(r)
  PROVE  /\ req[r].book \in Workbooks /\ receipts' = Imported(req[r].book) /\ DOMAIN req[r].book \subseteq ProductIds
         /\ \A p \in DOMAIN req[r].book : /\ ~Unavailable(p, req[r].book[p])
                                          /\ AmountOf(p) = req[r].items[p].current
         /\ \A p \in ProductIds :
              AmountOf(p)' = IF p \in DOMAIN req[r].book THEN req[r].book[p].amount ELSE AmountOf(p)
<1>1. Asked(Rows(product), req[r]) /\ req[r].at = "confirm" /\ Fresh(req[r].book) = req[r].items /\ ImportPrices(req[r].book)
  BY DEF Confirm, Stale, CatalogTypes, RequestTypes
<1>2. req[r].book \in Workbooks /\ Sound(req[r].items, req[r].book)
  BY <1>1, AskedFacts DEF ConfirmAsked
<1>3. \A p \in DOMAIN req[r].book : req[r].items[p] = ReadRow(p, req[r].book[p]) /\ ~req[r].items[p].issue
  BY <1>1, <1>2 DEF Fresh, Sound, Valid
<1>4. \A p \in DOMAIN req[r].book : ~Unavailable(p, req[r].book[p]) /\ AmountOf(p) = req[r].items[p].current
  <2> SUFFICES ASSUME NEW p \in DOMAIN req[r].book
               PROVE  ~Unavailable(p, req[r].book[p]) /\ AmountOf(p) = req[r].items[p].current
    OBVIOUS
  <2>1. ~ReadRow(p, req[r].book[p]).issue /\ req[r].items[p].current = ReadRow(p, req[r].book[p]).current
    BY <1>3
  <2>2. CASE Unavailable(p, req[r].book[p])
    <3>1. ReadRow(p, req[r].book[p]) = [issue |-> TRUE, current |-> None]
      BY <2>2 DEF ReadRow
    <3> QED BY <2>1, <3>1
  <2>3. CASE ~Unavailable(p, req[r].book[p])
    <3>1. ReadRow(p, req[r].book[p]) = [issue |-> FALSE, current |-> AmountOf(p)]
      BY <2>3 DEF ReadRow
    <3> QED BY <2>1, <2>3, <3>1
  <2> QED BY <2>2, <2>3
<1> QED BY <1>1, <1>2, <1>4, ImportFacts, BookFacts DEF CatalogTypes

(* An import changes exactly what its user reviewed (PriceImportTrans-     *)
(* action.confirm reads again under the lock).                             *)
THEOREM ImportsAreAsReviewed == Spec => ImportAsReviewed
<1>1. CatalogInv /\ CatalogTypes /\ [Next]_vars =>
        [\A r \in Requests : Commits(r) =>
           /\ \A p \in DOMAIN req[r].book : /\ ~Unavailable(p, req[r].book[p])
                                            /\ AmountOf(p) = req[r].items[p].current
                                            /\ AmountOf(p)' = req[r].book[p].amount
           /\ \A p \in ProductIds \ DOMAIN req[r].book : AmountOf(p)' = AmountOf(p)]_vars
  <2> SUFFICES ASSUME CatalogInv, CatalogTypes, [Next]_vars, NEW r \in Requests, Commits(r)
               PROVE  /\ \A p \in DOMAIN req[r].book : /\ ~Unavailable(p, req[r].book[p])
                                                       /\ AmountOf(p) = req[r].items[p].current
                                                       /\ AmountOf(p)' = req[r].book[p].amount
                      /\ \A p \in ProductIds \ DOMAIN req[r].book : AmountOf(p)' = AmountOf(p)
    OBVIOUS
  <2>1. Confirm(r)
    BY CommitsConfirm
  <2> QED BY <2>1, ConfirmFacts
<1> QED BY <1>1, CatalogStart, CatalogStep, TypesStart, TypesStep, PTL DEF Spec, ImportAsReviewed

(* The receipts of an import tell every price it changed, with the amounts *)
(* before and after.                                                       *)
THEOREM ImportsAreAudited == Spec => ImportIsAudited
<1>1. CatalogInv /\ CatalogTypes /\ [Next]_vars => [\A r \in Requests : Commits(r) => ToldBy(receipts')]_vars
  <2> SUFFICES ASSUME CatalogInv, CatalogTypes, [Next]_vars, NEW r \in Requests, Commits(r)
               PROVE  ToldBy(receipts')
    OBVIOUS
  <2> DEFINE book == req[r].book
  <2>1. Confirm(r)
    BY CommitsConfirm
  <2>2. /\ receipts' = Imported(book) /\ DOMAIN book \subseteq ProductIds
        /\ \A p \in ProductIds : AmountOf(p)' = IF p \in DOMAIN book THEN book[p].amount ELSE AmountOf(p)
    BY <2>1, ConfirmFacts
  <2>3. Changed(book) = {q \in ProductIds : AmountOf(q)' # AmountOf(q)}
    BY <2>2 DEF Changed
  <2>4. \A p \in Changed(book) : AmountOf(p)' = book[p].amount
    BY <2>2 DEF Changed
  <2> QED BY <2>2, <2>3, <2>4 DEF ToldBy, Imported
<1> QED BY <1>1, CatalogStart, CatalogStep, TypesStart, TypesStep, PTL DEF Spec, ImportIsAudited
=============================================================================
