------------------------------ MODULE Catalog ------------------------------
(***************************************************************************)
(* Products and prices of the branch, edited by concurrent requests of the *)
(* administration panel and by the confirmed import of a price workbook.   *)
(* An edit reads its rows before its first write takes SQLite's write lock *)
(* and then writes by primary key; a confirmation takes the lock first     *)
(* (BEGIN IMMEDIATE) and reads again. One unit; category is left out.      *)
(***************************************************************************)
EXTENDS Naturals, FiniteSets

CONSTANTS
  Editors,     \* handlers that serve edits
  Importers,   \* handlers that serve previews and confirmations
  Sessions,    \* administrative sessions (their CSRF tokens)
  UserOf,      \* the user of each session
  ProductIds,  \* rowids of products
  PriceIds,    \* rowids of prices
  PreviewIds,  \* uuids of previews, each issued once
  Names,       \* product names
  Amounts,     \* price amounts
  Workbooks,   \* price workbooks, as functions from product ids to a name and an amount
  MaxPending,  \* MAX_PENDING_PREVIEWS
  Faults,      \* which of "db" and "crash" happen
  None

ASSUME CatalogAssumption ==
  /\ ProductIds \subseteq Nat /\ PriceIds \subseteq Nat /\ MaxPending \in Nat
  /\ DOMAIN UserOf = Sessions
  /\ Workbooks \subseteq UNION {[ids -> [name : Names, amount : Amounts]] : ids \in (SUBSET ProductIds) \ {{}}}
  /\ None \notin ProductIds /\ None \notin Names /\ None \notin Amounts /\ None # [state |-> "gone"] /\ None # "success"
  /\ None \notin [name : Names, active : BOOLEAN] /\ None \notin [product : ProductIds, amount : Amounts]

VARIABLES
  allowed,   \* user -> whether its current role may write
  product,   \* the table products
  price,     \* the table prices
  receipts,  \* the price receipts the last step committed
  preview,   \* the in-memory store of previews, with what became of them
  attempt,   \* status of the import audit of each confirmed preview
  req        \* the request each handler serves

vars == <<allowed, product, price, receipts, preview, attempt, req>>

Requests == Editors \cup Importers
Users == {UserOf[s] : s \in Sessions}
Rows(table) == {i \in DOMAIN table : table[i] # None}
\* SQLite gives a new row the largest rowid plus one: a deleted last id comes back.
NextIds(table) == {i \in DOMAIN table : /\ \A j \in Rows(table) : j < i
                                        /\ i = 1 \/ i - 1 \in Rows(table)}
PricesOf(p) == {k \in Rows(price) : price[k].product = p}
AmountOf(p) == IF PricesOf(p) = {} THEN None ELSE price[CHOOSE k \in PricesOf(p) : TRUE].amount
\* Operators that start with "Wrong" carry one mistake the properties must notice; no action uses them.
WrongNameTaken(n, p) == \E q \in Rows(product) \ {p} : product[q].name = n /\ product[q].active
NameTaken(n, p) == \E q \in Rows(product) \ {p} : product[q].name = n
Receipt(p, old, new) == [product |-> p, old |-> old, new |-> new]

-----------------------------------------------------------------------------
\* What a request asks for. A workbook names each product at most once, in the
\* order of their ids.
Puts == [kind : {"put"}, product : ProductIds, amount : Amounts]
Deletes == [kind : {"delete"}, product : ProductIds]
Updates == [kind : {"update"}, product : ProductIds, name : Names, active : BOOLEAN]
Creates == [kind : {"create"}, name : Names]
Edits == Puts \cup Deletes \cup Updates \cup Creates

Idle == [at |-> "idle"]
Ends(r) == req' = [req EXCEPT ![r] = Idle]

-----------------------------------------------------------------------------
(* Edits: require_permission, then _context reads the role again and the   *)
(* handler reads its rows; its writes commit together with a receipt.      *)
SubmitEdit(r, s, edit) ==
  /\ req[r] = Idle /\ allowed[UserOf[s]]
  /\ req' = [req EXCEPT ![r] = [at |-> "look", session |-> s, edit |-> edit, seen |-> None]]
  /\ UNCHANGED <<allowed, product, price, preview, attempt>> /\ receipts' = {}

\* The row an edit is going to write, as it is now; a price edit sees the row's id and amount.
Seen(edit) ==
  CASE edit.kind = "create" -> None
    [] edit.kind = "update" -> product[edit.product]
    [] OTHER -> IF PricesOf(edit.product) = {} THEN None
                ELSE LET k == CHOOSE k \in PricesOf(edit.product) : TRUE
                     IN  [id |-> k, amount |-> price[k].amount]

\* 404 for what does not exist, and no write when nothing would change.
NothingToDo(edit, seen) ==
  \/ edit.kind # "create" /\ product[edit.product] = None
  \/ edit.kind = "delete" /\ seen = None
  \/ edit.kind = "put" /\ seen # None /\ seen.amount = edit.amount
  \/ edit.kind = "update" /\ seen = [name |-> edit.name, active |-> edit.active]

Look(r) ==
  /\ req[r].at = "look"
  /\ LET seen == Seen(req[r].edit)
     IN  IF ~allowed[UserOf[req[r].session]] \/ NothingToDo(req[r].edit, seen) THEN Ends(r)
         ELSE req' = [req EXCEPT ![r].at = "write", ![r].seen = seen]
  /\ UNCHANGED <<allowed, product, price, preview, attempt>> /\ receipts' = {}

InsertPrice(p, amount) ==
  /\ PricesOf(p) = {}
  /\ \E k \in NextIds(price) : price' = [price EXCEPT ![k] = [product |-> p, amount |-> amount]]

\* put_price: the UPDATE names the row by the id read before.
PutPrice(edit, seen) ==
  /\ edit.kind = "put"
  /\ IF seen = None THEN InsertPrice(edit.product, edit.amount)
     ELSE /\ price[seen.id] # None
          /\ price' = [price EXCEPT ![seen.id].amount = edit.amount]
  /\ receipts' = {Receipt(edit.product, IF seen = None THEN None ELSE seen.amount, edit.amount)}
  /\ UNCHANGED product

\* delete_price: a DELETE that finds no row only warns; the receipt is written all the same.
DeletePrice(edit, seen) ==
  /\ edit.kind = "delete"
  /\ price' = [price EXCEPT ![seen.id] = None]
  /\ receipts' = {Receipt(edit.product, seen.amount, None)}
  /\ UNCHANGED product

\* update_product and deactivate_product: the ORM writes only the columns that differ from what was read.
UpdateProduct(edit, seen) ==
  /\ edit.kind = "update"
  /\ edit.name # seen.name => ~NameTaken(edit.name, edit.product)
  /\ product' = [product EXCEPT
       ![edit.product].name = IF edit.name # seen.name THEN edit.name ELSE @,
       ![edit.product].active = IF edit.active # seen.active THEN edit.active ELSE @]
  /\ receipts' = {} /\ UNCHANGED price

CreateProduct(edit) ==
  /\ edit.kind = "create" /\ ~NameTaken(edit.name, None)
  /\ \E i \in NextIds(product) :
       product' = [product EXCEPT ![i] = [name |-> edit.name, active |-> TRUE]]
  /\ receipts' = {} /\ UNCHANGED price

Write(r) ==
  /\ req[r].at = "write"
  /\ \/ PutPrice(req[r].edit, req[r].seen)
     \/ DeletePrice(req[r].edit, req[r].seen)
     \/ UpdateProduct(req[r].edit, req[r].seen)
     \/ CreateProduct(req[r].edit)
  /\ Ends(r) /\ UNCHANGED <<allowed, preview, attempt>>

\* A conflict, a vanished row or a failure rolls the whole edit back.
EditFails(r) ==
  /\ req[r].at = "write"
  /\ Ends(r) /\ UNCHANGED <<allowed, product, price, preview, attempt>> /\ receipts' = {}

-----------------------------------------------------------------------------
(* Preview of a workbook: its rows are compared one after the other        *)
(* without a lock; a valid preview waits in memory for its session.        *)
Unavailable(p, row) == product[p] = None \/ ~product[p].active \/ product[p].name # row.name
ReadRow(p, row) == IF Unavailable(p, row) THEN [issue |-> TRUE, current |-> None]
                   ELSE [issue |-> FALSE, current |-> AmountOf(p)]
Fresh(book) == [p \in DOMAIN book |-> ReadRow(p, book[p])]
Valid(items) == \A p \in DOMAIN items : ~items[p].issue

SubmitPreview(r, s, book) ==
  /\ req[r] = Idle /\ allowed[UserOf[s]]
  /\ req' = [req EXCEPT ![r] = [at |-> "read", session |-> s, book |-> book, items |-> <<>>]]
  /\ UNCHANGED <<allowed, product, price, preview, attempt>> /\ receipts' = {}

Compare(r, p) ==
  /\ req[r].at = "read" /\ p \in DOMAIN req[r].book \ DOMAIN req[r].items
  /\ \A q \in DOMAIN req[r].book \ DOMAIN req[r].items : p <= q
  /\ req' = [req EXCEPT ![r].items = [q \in DOMAIN @ \cup {p} |->
                                       IF q = p THEN ReadRow(p, req[r].book[p]) ELSE @[q]]]
  /\ UNCHANGED <<allowed, product, price, preview, attempt>> /\ receipts' = {}

Gone == [state |-> "gone"]
InState(states) == {id \in Rows(preview) : preview[id].state \in states}
Purged == [id \in PreviewIds |-> IF id \in InState({"expired"})
                                 THEN Gone ELSE preview[id]]

Put(r) ==
  /\ req[r].at = "read" /\ DOMAIN req[r].items = DOMAIN req[r].book
  /\ IF Valid(req[r].items) /\ Cardinality(InState({"pending"})) < MaxPending
     THEN \E id \in PreviewIds \ Rows(preview) :
            preview' = [Purged EXCEPT ![id] =
              [state |-> "pending", session |-> req[r].session, book |-> req[r].book, items |-> req[r].items]]
     ELSE preview' = IF Valid(req[r].items) THEN Purged ELSE preview
  /\ Ends(r) /\ UNCHANGED <<allowed, product, price, attempt>> /\ receipts' = {}

-----------------------------------------------------------------------------
(* Confirmation: take the preview, then revalidate and write everything    *)
(* under one write lock; what is refused or fails is recorded afterwards.  *)
Takes(s, id) == id \in InState({"pending"}) /\ preview[id].session = s

WrongPopped(id) == Purged
Popped(id) == [Purged EXCEPT ![id] = Gone]

Take(r, s, id) ==
  /\ req[r] = Idle /\ allowed[UserOf[s]] /\ id \in Rows(preview)
  /\ IF Takes(s, id)
     THEN /\ preview' = Popped(id)
          /\ req' = [req EXCEPT ![r] = [at |-> "confirm", session |-> s, id |-> id, book |-> preview[id].book,
                                        items |-> preview[id].items]]
     ELSE preview' = Purged /\ UNCHANGED req
  /\ UNCHANGED <<allowed, product, price, attempt>> /\ receipts' = {}

WrongStale(r) == ~Valid(Fresh(req[r].book))
Stale(r) == Fresh(req[r].book) # req[r].items
MayConfirm(r) == allowed[UserOf[req[r].session]]
Changed(book) == {p \in DOMAIN book : AmountOf(p) # book[p].amount}
WrongImported(book) == {Receipt(p, AmountOf(p), book[p].amount) : p \in {q \in Changed(book) : PricesOf(q) # {}}}
Imported(book) == {Receipt(p, AmountOf(p), book[p].amount) : p \in Changed(book)}

\* Existing rows are updated; new ones take the next ids, in any order of the workbook.
ImportPrices(book) ==
  LET new == {p \in Changed(book) : PricesOf(p) = {}}
      above == {k \in PriceIds : \A j \in Rows(price) : j < k}
      next == {k \in above : Cardinality({j \in above : j <= k}) <= Cardinality(new)}
  IN  \E row \in [new -> next] :
        /\ \A k \in next : \E p \in new : row[p] = k
        /\ \A p, q \in new : row[p] = row[q] => p = q
        /\ price' = [k \in PriceIds |->
             LET mine == {p \in Changed(book) : IF p \in new THEN row[p] = k ELSE k \in PricesOf(p)}
             IN  IF mine = {} THEN price[k]
                 ELSE LET p == CHOOSE p \in mine : TRUE
                      IN  [product |-> p, amount |-> book[p].amount]]
        /\ receipts' = Imported(book)

Confirm(r) ==
  /\ req[r].at = "confirm" /\ ~Stale(r) /\ MayConfirm(r)
  /\ ImportPrices(req[r].book)
  /\ attempt' = [attempt EXCEPT ![req[r].id] = "success"]
  /\ Ends(r) /\ UNCHANGED <<allowed, product, preview>>

ToRecord(r, status) == req' = [req EXCEPT ![r] = [at |-> "record", session |-> @.session, id |-> @.id, status |-> status]]

\* Stale or unauthorized: nothing is written, the attempt is recorded as rejected.
Refuse(r) ==
  /\ req[r].at = "confirm" /\ (Stale(r) \/ ~MayConfirm(r))
  /\ ToRecord(r, "rejected")
  /\ UNCHANGED <<allowed, product, price, preview, attempt>> /\ receipts' = {}

\* A database failure rolls the import back and is recorded as failed.
ConfirmFails(r) ==
  /\ req[r].at = "confirm" /\ "db" \in Faults
  /\ ToRecord(r, "failed")
  /\ UNCHANGED <<allowed, product, price, preview, attempt>> /\ receipts' = {}

RecordFailure(r) ==
  /\ req[r].at = "record"
  /\ \/ attempt' = [attempt EXCEPT ![req[r].id] = req[r].status]
     \/ "db" \in Faults /\ UNCHANGED attempt
  /\ Ends(r) /\ UNCHANGED <<allowed, product, price, preview>> /\ receipts' = {}

-----------------------------------------------------------------------------
(* The environment: an owner takes a role away, ten minutes pass, the      *)
(* process restarts and forgets its previews.                              *)
Demote(u) ==
  /\ allowed' = [allowed EXCEPT ![u] = FALSE]
  /\ UNCHANGED <<product, price, preview, attempt, req>> /\ receipts' = {}

Expire(id) ==
  /\ id \in InState({"pending"})
  /\ preview' = [preview EXCEPT ![id].state = "expired"]
  /\ UNCHANGED <<allowed, product, price, attempt, req>> /\ receipts' = {}

Restart ==
  /\ "crash" \in Faults
  /\ preview' = [id \in PreviewIds |-> IF id \in InState({"pending", "expired"})
                                       THEN Gone ELSE preview[id]]
  /\ req' = [r \in Requests |-> Idle]
  /\ UNCHANGED <<allowed, product, price, attempt>> /\ receipts' = {}

\* Products entered before, one for each name and one after the other, all of them offered; None is no product.
Catalogue(names) ==
  /\ \A p, q \in ProductIds : names[p] = names[q] => p = q \/ names[p] = None
  /\ \A p, q \in ProductIds : p < q /\ names[q] # None => names[p] # None
Offered(names) == [p \in ProductIds |-> IF names[p] = None THEN None ELSE [name |-> names[p], active |-> TRUE]]

Init ==
  /\ allowed = [u \in Users |-> TRUE]
  /\ \E names \in [ProductIds -> Names \cup {None}] : Catalogue(names) /\ product = Offered(names)
  /\ price = [k \in PriceIds |-> None]
  /\ receipts = {}
  /\ preview = [id \in PreviewIds |-> None]
  /\ attempt = [id \in PreviewIds |-> None]
  /\ req = [r \in Requests |-> Idle]

Serve(r) ==
  \/ Look(r) \/ Write(r) \/ EditFails(r)
  \/ \E p \in ProductIds : Compare(r, p)
  \/ Put(r) \/ Confirm(r) \/ Refuse(r) \/ ConfirmFails(r) \/ RecordFailure(r)

AsksIn(s, r) ==
  \/ r \in Editors /\ \E edit \in Edits : SubmitEdit(r, s, edit)
  \/ r \in Importers /\ \E book \in Workbooks : SubmitPreview(r, s, book)
  \/ r \in Importers /\ \E id \in PreviewIds : Take(r, s, id)

Asks(r) == \E s \in Sessions : AsksIn(s, r)

Next ==
  \/ \E r \in Requests : Asks(r) \/ Serve(r)
  \/ \E u \in Users : Demote(u)
  \/ \E id \in PreviewIds : Expire(id)
  \/ Restart

Spec == Init /\ [][Next]_vars

-----------------------------------------------------------------------------
Item == [issue : BOOLEAN, current : Amounts \cup {None}]
TypeOK ==
  /\ allowed \in [Users -> BOOLEAN]
  /\ product \in [ProductIds -> [name : Names, active : BOOLEAN] \cup {None}]
  /\ price \in [PriceIds -> [product : ProductIds, amount : Amounts] \cup {None}]
  /\ receipts \subseteq [product : ProductIds, old : Amounts \cup {None}, new : Amounts \cup {None}]
  /\ attempt \in [PreviewIds -> {None, "success", "rejected", "failed"}]
  /\ \A id \in InState({"pending", "expired"}) : /\ preview[id].session \in Sessions
                                                 /\ preview[id].book \in Workbooks
                                                 /\ preview[id].items \in [DOMAIN preview[id].book -> Item]
  /\ Cardinality(InState({"pending"})) <= MaxPending
  /\ \A p, q \in Rows(product) : product[p].name = product[q].name => p = q
  /\ \A j, k \in Rows(price) : price[j].product = price[k].product => j = k
  /\ \A r \in Requests : req[r].at \in {"idle", "look", "write", "read", "confirm", "record"}

\* The step of request r that commits its import.
Commits(r) == req[r].at = "confirm" /\ attempt'[req[r].id] = "success"

\* An import changes exactly what its user reviewed: the products are still offered under the reviewed names,
\* every price was the reviewed one until now, and no other price moves.
ImportAsReviewed ==
  [][\A r \in Requests : Commits(r) =>
       /\ \A p \in DOMAIN req[r].book : /\ ~Unavailable(p, req[r].book[p])
                                        /\ AmountOf(p) = req[r].items[p].current
                                        /\ AmountOf(p)' = req[r].book[p].amount
       /\ \A p \in ProductIds \ DOMAIN req[r].book : AmountOf(p)' = AmountOf(p)]_vars

\* Receipts that tell every price of the step, with the amounts before and after.
ToldBy(told) == told = {Receipt(p, AmountOf(p), AmountOf(p)') : p \in {q \in ProductIds : AmountOf(q)' # AmountOf(q)}}

\* The receipts committed with an import tell every price it changed, with the amounts before and after.
ImportIsAudited == [][\A r \in Requests : Commits(r) => ToldBy(receipts')]_vars

\* A preview is confirmed by one request, once, although two confirmations of it may arrive together, or one of
\* another session: while one confirms it, it is not in the store, no other request holds it and its attempt is
\* not recorded yet.
ConsumedOnce ==
  \A r \in Requests : req[r].at \in {"confirm", "record"} =>
    /\ preview[req[r].id] = Gone /\ attempt[req[r].id] = None
    /\ \A q \in Requests \ {r} : req[q].at \in {"confirm", "record"} => req[q].id # req[r].id

\* docs/fase_8_commercial.md: a price receipt carries the amounts before and after the change it records.
AuditTellsChange == [][price' # price => ToldBy(receipts')]_vars

=============================================================================
