----------------------------- MODULE MCImports ------------------------------
(* The run of imports: some of the handlers, sessions and previews are     *)
(* used and the others rest. Either one session edits and imports, or two  *)
(* sessions import, which confirm each other's previews as well.           *)
EXTENDS MCCatalog

VARIABLE cast  \* what is used

One(set) == {CHOOSE x \in set : TRUE}
Casts == {[handlers |-> Editors \cup One(Importers), sessions |-> One(Sessions), previews |-> One(PreviewIds)],
          [handlers |-> Importers, sessions |-> Sessions, previews |-> PreviewIds]}

ImportsInit == Init /\ cast \in Casts

ImportsNext ==
  /\ \/ \E r \in cast.handlers : Serve(r) \/ \E s \in cast.sessions : AsksIn(s, r)
     \/ \E s \in cast.sessions : Demote(UserOf[s])
     \/ \E id \in cast.previews : Expire(id)
     \/ Restart
  /\ \A id \in PreviewIds : preview'[id] # preview[id] => id \in cast.previews
  /\ UNCHANGED cast

ImportsSpec == ImportsInit /\ [][ImportsNext]_<<vars, cast>>
=============================================================================
