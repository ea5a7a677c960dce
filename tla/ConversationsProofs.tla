------------------------ MODULE ConversationsProofs ------------------------
(***************************************************************************)
(* Proofs of the safety properties of Conversations, for any number of     *)
(* requests, any texts and any routes.                                     *)
(***************************************************************************)
EXTENDS Conversations, FiniteSetTheorems, TLAPS

USE TextsAssumption

----------------------------------------------------------------------------
(* Type correctness *)

\* message_count is a number because the messages are finitely many.
Finite == IsFiniteSet(ever) /\ messages \subseteq ever

LEMMA Sizes ==
    ASSUME Finite
    PROVE  Size \in Nat /\ Cardinality(ever) \in Nat /\ Size <= Cardinality(ever)
  <1>1. IsFiniteSet(messages) /\ Size <= Cardinality(ever)
    BY FS_Subset DEF Finite, Size
  <1>2. QED
    BY <1>1, FS_CardinalityType DEF Finite, Size

LEMMA FiniteInductive ==
    ASSUME Finite, [Next]_vars
    PROVE  Finite'
  <1>1. ASSUME NEW r \in Requests, NEW q \in Questions, ChatStores(r, q)
        PROVE  Finite'
    <2>1. IsFiniteSet(ever \cup {Asked(r)})
      BY FS_AddElement DEF Finite
    <2>2. IsFiniteSet((ever \cup {Asked(r)}) \cup {Answer(r)})
      BY <2>1, FS_AddElement
    <2>3. ever' = (ever \cup {Asked(r)}) \cup {Answer(r)}
      BY <1>1 DEF ChatStores
    <2>4. QED
      BY <1>1, <2>2, <2>3 DEF ChatStores, Finite
  <1>2. ASSUME NEW r \in Requests, PostStores(r)
        PROVE  Finite'
    <2>1. IsFiniteSet(ever \cup {Asked(r)})
      BY FS_AddElement DEF Finite
    <2>2. QED
      BY <1>2, <2>1 DEF PostStores, Finite
  <1>3. ASSUME NEW r \in Requests, DeleteConversation(r)
        PROVE  Finite'
    BY <1>3 DEF DeleteConversation, history, Finite
  <1>4. ASSUME NEW r \in Requests, NEW m \in messages, DeleteMessage(r, m)
        PROVE  Finite'
    BY <1>4 DEF DeleteMessage, Finite
  <1>5. ASSUME UNCHANGED <<messages, ever>>
        PROVE  Finite'
    BY <1>5 DEF Finite
  <1>6. QED
    BY <1>1, <1>2, <1>3, <1>4, <1>5
       DEF Next, Chat, Post, Manage, vars, system, history, NewConversation, Rename,
           RenameCommits, ChatCreates, ChatRereads, ChatCounts, ChatFinishes,
           ChatFinishesUnsaved, PostLoads, PostRereads, PostFinishes,
           PostFinishesUnsaved, Fails

LEMMA TextTypes ==
    /\ Empty \in Titles /\ Dated \in Titles /\ Names \subseteq Titles /\ Questions \subseteq Titles
    /\ \A q \in Questions : Clean[q] \in Titles
  BY DEF Titles

LEMMA ObjectTypes ==
    ASSUME TypeOK
    PROVE  NoObject \in Loaded /\ Object \in Loaded
  BY TextTypes DEF TypeOK, NoObject, Object, Loaded

LEMMA MessageTypes ==
    \A r \in Requests : Asked(r) \in Message /\ Answer(r) \in Message
  BY DEF Asked, Answer, Message

LEMMA ConvTypes ==
    ASSUME TypeOK, NEW n \in Nat, NEW t \in Titles
    PROVE  /\ [conv EXCEPT !.state = "gone"] \in [state : {"none", "live", "gone"}, title : Titles, count : Nat]
           /\ [conv EXCEPT !.title = t] \in [state : {"none", "live", "gone"}, title : Titles, count : Nat]
           /\ [conv EXCEPT !.count = n] \in [state : {"none", "live", "gone"}, title : Titles, count : Nat]
           /\ [conv EXCEPT !.count = n, !.title = t] \in [state : {"none", "live", "gone"}, title : Titles, count : Nat]
  BY DEF TypeOK

LEMMA IncrementType ==
    ASSUME TypeOK, NEW r \in Requests
    PROVE  Increment(obj[r]) \in Nat
  BY DEF TypeOK, Loaded, Increment

\* What a chat request carries is its message.
Carries == \A r \in Requests : pc[r] \in {"created", "stored", "reread", "counted"} => text[r] \in Questions

LEMMA CarriesInductive ==
    ASSUME TypeOK, Carries, [Next]_vars
    PROVE  Carries'
  <1>1. ASSUME NEW r \in Requests, NEW t \in Names \cup {Empty}, NewConversation(r, t)
        PROVE  Carries'
    BY <1>1 DEF NewConversation, Carries, Goto, Ends, Begins
  <1>2. ASSUME NEW r \in Requests, NEW t \in Names \cup {Empty}, Rename(r, t)
        PROVE  Carries'
    BY <1>2 DEF Rename, Carries, Goto, Begins
  <1>3. ASSUME NEW r \in Requests, RenameCommits(r)
        PROVE  Carries'
    BY <1>3 DEF RenameCommits, Carries, Goto, Ends
  <1>4. ASSUME NEW r \in Requests, DeleteConversation(r)
        PROVE  Carries'
    BY <1>4 DEF DeleteConversation, Carries, Goto, Ends, Begins
  <1>5. ASSUME NEW r \in Requests, NEW q \in Questions, ChatCreates(r, q)
        PROVE  Carries'
    BY <1>5 DEF ChatCreates, TypeOK, Carries, Goto, Ends
  <1>6. ASSUME NEW r \in Requests, NEW q \in Questions, ChatStores(r, q)
        PROVE  Carries'
    BY <1>6 DEF ChatStores, TypeOK, Carries, Goto, Ends
  <1>7. ASSUME NEW r \in Requests, ChatRereads(r)
        PROVE  Carries'
    BY <1>7 DEF ChatRereads, Carries, Goto
  <1>8. ASSUME NEW r \in Requests, ChatCounts(r)
        PROVE  Carries'
    BY <1>8 DEF ChatCounts, Carries, Goto
  <1>9. ASSUME NEW r \in Requests, ChatFinishes(r)
        PROVE  Carries'
    BY <1>9 DEF ChatFinishes, TypeOK, Carries, Goto, Ends
  <1>10. ASSUME NEW r \in Requests, ChatFinishesUnsaved(r)
        PROVE  Carries'
    BY <1>10 DEF ChatFinishesUnsaved, TypeOK, Carries, Goto, Ends
  <1>11. ASSUME NEW r \in Requests, PostLoads(r)
        PROVE  Carries'
    BY <1>11 DEF PostLoads, Carries, Goto
  <1>12. ASSUME NEW r \in Requests, PostStores(r)
        PROVE  Carries'
    BY <1>12 DEF PostStores, Carries, Goto
  <1>13. ASSUME NEW r \in Requests, PostRereads(r)
        PROVE  Carries'
    BY <1>13 DEF PostRereads, Carries, Goto
  <1>14. ASSUME NEW r \in Requests, PostFinishes(r)
        PROVE  Carries'
    BY <1>14 DEF PostFinishes, Carries, Goto, Ends
  <1>15. ASSUME NEW r \in Requests, PostFinishesUnsaved(r)
        PROVE  Carries'
    BY <1>15 DEF PostFinishesUnsaved, Carries, Goto, Ends
  <1>16. ASSUME NEW r \in Requests, NEW m \in messages, DeleteMessage(r, m)
        PROVE  Carries'
    BY <1>16 DEF DeleteMessage, Carries, Goto, Ends, Begins
  <1>17. ASSUME NEW r \in Requests, Fails(r)
        PROVE  Carries'
    BY <1>17 DEF Fails, TypeOK, Carries, Goto, Ends
  <1>18. CASE UNCHANGED vars
    BY <1>18 DEF vars, system, Carries
  <1>19. QED
    BY <1>1, <1>2, <1>3, <1>4, <1>5, <1>6, <1>7, <1>8, <1>9, <1>10, <1>11, <1>12, <1>13,
       <1>14, <1>15, <1>16, <1>17, <1>18
       DEF Next, Chat, Post, Manage

LEMMA EndsTypes ==
    ASSUME TypeOK, NEW r \in Requests, NEW p \in Stages, Ends(r, p)
    PROVE  /\ pc' \in [Requests -> Stages]
           /\ obj' \in [Requests -> Loaded]
           /\ text' \in [Requests -> Titles]
           /\ seen' \in [Requests -> Nat]
  BY ObjectTypes, TextTypes DEF Ends, Goto, TypeOK

LEMMA TypesInductive ==
    ASSUME TypeOK, Finite, Carries, [Next]_vars
    PROVE  TypeOK'
  <1>1. ASSUME NEW r \in Requests, NEW t \in Names \cup {Empty}, NewConversation(r, t)
        PROVE  TypeOK'
    BY <1>1, TextTypes, EndsTypes DEF NewConversation, TypeOK, Stages, history
  <1>2. ASSUME NEW r \in Requests, NEW t \in Names \cup {Empty}, Rename(r, t)
        PROVE  TypeOK'
    BY <1>2, TextTypes, ObjectTypes DEF Rename, TypeOK, Stages, Goto, history
  <1>3. ASSUME NEW r \in Requests, RenameCommits(r)
        PROVE  TypeOK'
    <2>1. text[r] \in Titles
      BY DEF TypeOK
    <2>2. conv' \in [state : {"none", "live", "gone"}, title : Titles, count : Nat]
      <3>1. conv' = conv \/ conv' = [conv EXCEPT !.title = text[r]]
        BY <1>3 DEF RenameCommits
      <3>2. QED
        BY <2>1, <3>1, ConvTypes DEF TypeOK
    <2>3. owner' \in {"creation", "chat", "user"}
      BY <1>3 DEF RenameCommits, TypeOK
    <2>4. Ends(r, "done") /\ "done" \in Stages /\ UNCHANGED <<messages, ever, disturbed, cause>>
      BY <1>3 DEF RenameCommits, Stages
    <2>5. QED
      BY <2>2, <2>3, <2>4, EndsTypes DEF TypeOK
  <1>4. ASSUME NEW r \in Requests, DeleteConversation(r)
        PROVE  TypeOK'
    BY <1>4, EndsTypes DEF DeleteConversation, TypeOK, Stages, history
  <1>5. ASSUME NEW r \in Requests, NEW q \in Questions, ChatCreates(r, q)
        PROVE  TypeOK'
    <2>1. q \in Titles
      BY TextTypes
    <2>2. conv' \in [state : {"none", "live", "gone"}, title : Titles, count : Nat]
      BY <1>5, <2>1 DEF ChatCreates
    <2>3. obj' \in [Requests -> Loaded] /\ text' \in [Requests -> Titles]
      BY <1>5, <2>1 DEF ChatCreates, TypeOK, Loaded
    <2>4. pc' \in [Requests -> Stages] /\ UNCHANGED <<messages, seen, history>>
      BY <1>5 DEF ChatCreates, TypeOK, Goto, Stages
    <2>5. QED
      BY <2>2, <2>3, <2>4 DEF TypeOK, history
  <1>6. ASSUME NEW r \in Requests, NEW q \in Questions, ChatStores(r, q)
        PROVE  TypeOK'
    <2>1. messages' \in SUBSET Message /\ ever' \in SUBSET Message
      BY <1>6, MessageTypes DEF ChatStores, TypeOK
    <2>2. text' \in [Requests -> Titles]
      BY <1>6, TextTypes DEF ChatStores, TypeOK
    <2>3. disturbed' \in [Requests -> BOOLEAN]
      BY <1>6 DEF ChatStores, TypeOK, Disturb
    <2>4. pc' \in [Requests -> Stages] /\ UNCHANGED <<conv, obj, seen, owner, cause>>
      BY <1>6 DEF ChatStores, TypeOK, Goto, Stages
    <2>5. QED
      BY <2>1, <2>2, <2>3, <2>4 DEF TypeOK
  <1>7. ASSUME NEW r \in Requests, ChatRereads(r)
        PROVE  TypeOK'
    BY <1>7 DEF ChatRereads, TypeOK, Stages, Goto, history
  <1>8. ASSUME NEW r \in Requests, ChatCounts(r)
        PROVE  TypeOK'
    BY <1>8, Sizes DEF ChatCounts, TypeOK, Stages, Goto
  <1>9. ASSUME NEW r \in Requests, ChatFinishes(r)
        PROVE  TypeOK'
    <2> DEFINE known    == IF obj[r] = NoObject THEN conv.title ELSE obj[r].title
               retitled == ShouldUpdateTitle(known) /\ CleanTitle(text[r]) # Empty /\ CleanTitle(text[r]) # known
               title    == IF retitled THEN CleanTitle(text[r]) ELSE conv.title
    <2>1. CleanTitle(text[r]) \in Titles
      BY <1>9, TextTypes DEF ChatFinishes, Carries, CleanTitle
    <2>2. conv' = [conv EXCEPT !.count = seen[r], !.title = title]
      BY <1>9 DEF ChatFinishes
    <2>3. conv' \in [state : {"none", "live", "gone"}, title : Titles, count : Nat]
      <3>1. title \in Titles /\ seen[r] \in Nat
        BY <2>1 DEF TypeOK
      <3> HIDE DEF title
      <3>2. QED
        BY <2>2, <3>1, ConvTypes
    <2>4. owner' \in {"creation", "chat", "user"}
      BY <1>9 DEF ChatFinishes, TypeOK
    <2>5. cause' \in SUBSET Causes /\ disturbed' \in [Requests -> BOOLEAN]
      BY <1>9 DEF ChatFinishes, TypeOK, Causes, Disturb
    <2>6. Ends(r, "done") /\ "done" \in Stages /\ UNCHANGED <<messages, ever>>
      BY <1>9 DEF ChatFinishes, Stages
    <2>7. QED
      BY <2>3, <2>4, <2>5, <2>6, EndsTypes DEF TypeOK
  <1>10. ASSUME NEW r \in Requests, ChatFinishesUnsaved(r)
        PROVE  TypeOK'
    BY <1>10, EndsTypes DEF ChatFinishesUnsaved, TypeOK, Stages, history
  <1>11. ASSUME NEW r \in Requests, PostLoads(r)
        PROVE  TypeOK'
    BY <1>11, ObjectTypes DEF PostLoads, TypeOK, Stages, Goto
  <1>12. ASSUME NEW r \in Requests, PostStores(r)
        PROVE  TypeOK'
    <2>1. messages' \in SUBSET Message /\ ever' \in SUBSET Message
      BY <1>12, MessageTypes DEF PostStores, TypeOK
    <2>2. disturbed' \in [Requests -> BOOLEAN]
      BY <1>12 DEF PostStores, TypeOK, Disturb
    <2>3. pc' \in [Requests -> Stages] /\ UNCHANGED <<conv, obj, text, seen, owner, cause>>
      BY <1>12 DEF PostStores, TypeOK, Goto, Stages
    <2>4. QED
      BY <2>1, <2>2, <2>3 DEF TypeOK
  <1>13. ASSUME NEW r \in Requests, PostRereads(r)
        PROVE  TypeOK'
    BY <1>13 DEF PostRereads, TypeOK, Stages, Goto, history
  <1>14. ASSUME NEW r \in Requests, PostFinishes(r)
        PROVE  TypeOK'
    BY <1>14, IncrementType, EndsTypes DEF PostFinishes, TypeOK, Stages, Causes, Disturb
  <1>15. ASSUME NEW r \in Requests, PostFinishesUnsaved(r)
        PROVE  TypeOK'
    BY <1>15, EndsTypes DEF PostFinishesUnsaved, TypeOK, Stages, history
  <1>16. ASSUME NEW r \in Requests, NEW m \in messages, DeleteMessage(r, m)
        PROVE  TypeOK'
    BY <1>16, EndsTypes DEF DeleteMessage, TypeOK, Stages, Causes, Disturb
  <1>17. ASSUME NEW r \in Requests, Fails(r)
        PROVE  TypeOK'
    BY <1>17, EndsTypes DEF Fails, TypeOK, Stages, Causes
  <1>18. CASE UNCHANGED vars
    BY <1>18 DEF vars, system, system, history, TypeOK
  <1>19. QED
    BY <1>1, <1>2, <1>3, <1>4, <1>5, <1>6, <1>7, <1>8, <1>9, <1>10, <1>11, <1>12, <1>13,
       <1>14, <1>15, <1>16, <1>17, <1>18
       DEF Next, Chat, Post, Manage

TypeInv == TypeOK /\ Finite /\ Carries

LEMMA TypeInvHolds == Spec => []TypeInv
  <1>1. Init => TypeInv
    <2>1. ASSUME Init
          PROVE  TypeOK
      BY <2>1, TextTypes DEF Init, TypeOK, NoObject, Loaded, Stages
    <2>2. ASSUME Init
          PROVE  Finite /\ Carries
      BY <2>2, FS_EmptySet DEF Init, Finite, Carries
    <2>3. QED
      BY <2>1, <2>2 DEF TypeInv
  <1>2. TypeInv /\ [Next]_vars => TypeInv'
    BY TypesInductive, FiniteInductive, CarriesInductive DEF TypeInv
  <1>3. QED
    BY <1>1, <1>2, PTL DEF Spec

\* Every reachable state is well typed; message_count and every count that a
\* request holds is a natural number (models/conversation.py, models/message.py).
THEOREM TypeCorrect == Spec => []TypeOK
  <1>1. TypeInv => TypeOK
    BY DEF TypeInv
  <1>2. QED
    BY <1>1, TypeInvHolds, PTL

----------------------------------------------------------------------------
(* message_count never runs ahead *)

\* A request that has stored nothing yet has no message.
Fresh == \A r \in Requests : pc[r] \in {"idle", "created", "loaded", "renaming"} => Asked(r) \notin ever

\* The number a request may yet write is at most the messages that ever were.
Promise(r) ==
    /\ pc[r] = "counted" => seen[r] <= Cardinality(ever)
    /\ pc[r] = "loaded" => obj[r].count <= Cardinality(ever)
    /\ pc[r] \in {"posted", "confirmed"} => obj[r].count < Cardinality(ever)

Behind == CountNeverAhead /\ \A r \in Requests : Promise(r)

LEMMA MessagesDiffer ==
    \A q, r \in Requests : Asked(q) # Answer(r) /\ (q # r => Asked(q) # Asked(r))
  BY DEF Asked, Answer

LEMMA FreshInductive ==
    ASSUME TypeInv, Fresh, [Next]_vars
    PROVE  Fresh'
  <1>1. ASSUME NEW r \in Requests, NEW t \in Names \cup {Empty}, NewConversation(r, t)
        PROVE  Fresh'
    BY <1>1 DEF NewConversation, Fresh, Goto, Ends, history
  <1>2. ASSUME NEW r \in Requests, NEW t \in Names \cup {Empty}, Rename(r, t)
        PROVE  Fresh'
    BY <1>2 DEF Rename, Fresh, Goto, Begins, history
  <1>3. ASSUME NEW r \in Requests, RenameCommits(r)
        PROVE  Fresh'
    BY <1>3 DEF RenameCommits, Fresh, Goto, Ends
  <1>4. ASSUME NEW r \in Requests, DeleteConversation(r)
        PROVE  Fresh'
    BY <1>4 DEF DeleteConversation, Fresh, Goto, Ends, history
  <1>5. ASSUME NEW r \in Requests, NEW q \in Questions, ChatCreates(r, q)
        PROVE  Fresh'
    BY <1>5 DEF ChatCreates, Fresh, Goto, Begins, history
  <1>6. ASSUME NEW r \in Requests, NEW q \in Questions, ChatStores(r, q)
        PROVE  Fresh'
    BY <1>6, MessagesDiffer DEF ChatStores, TypeInv, TypeOK, Fresh, Goto
  <1>7. ASSUME NEW r \in Requests, ChatRereads(r)
        PROVE  Fresh'
    BY <1>7 DEF ChatRereads, Fresh, Goto, history
  <1>8. ASSUME NEW r \in Requests, ChatCounts(r)
        PROVE  Fresh'
    BY <1>8 DEF ChatCounts, Fresh, Goto
  <1>9. ASSUME NEW r \in Requests, ChatFinishes(r)
        PROVE  Fresh'
    BY <1>9 DEF ChatFinishes, Fresh, Goto, Ends
  <1>10. ASSUME NEW r \in Requests, ChatFinishesUnsaved(r)
        PROVE  Fresh'
    BY <1>10 DEF ChatFinishesUnsaved, Fresh, Goto, Ends, history
  <1>11. ASSUME NEW r \in Requests, PostLoads(r)
        PROVE  Fresh'
    BY <1>11 DEF PostLoads, Fresh, Goto, Begins
  <1>12. ASSUME NEW r \in Requests, PostStores(r)
        PROVE  Fresh'
    BY <1>12, MessagesDiffer DEF PostStores, TypeInv, TypeOK, Fresh, Goto
  <1>13. ASSUME NEW r \in Requests, PostRereads(r)
        PROVE  Fresh'
    BY <1>13 DEF PostRereads, Fresh, Goto, history
  <1>14. ASSUME NEW r \in Requests, PostFinishes(r)
        PROVE  Fresh'
    BY <1>14 DEF PostFinishes, Fresh, Goto, Ends
  <1>15. ASSUME NEW r \in Requests, PostFinishesUnsaved(r)
        PROVE  Fresh'
    BY <1>15 DEF PostFinishesUnsaved, Fresh, Goto, Ends, history
  <1>16. ASSUME NEW r \in Requests, NEW m \in messages, DeleteMessage(r, m)
        PROVE  Fresh'
    BY <1>16 DEF DeleteMessage, Fresh, Goto, Ends
  <1>17. ASSUME NEW r \in Requests, Fails(r)
        PROVE  Fresh'
    BY <1>17 DEF Fails, Fresh, Goto, Ends
  <1>18. CASE UNCHANGED vars
    BY <1>18 DEF vars, system, Fresh, history
  <1>19. QED
    BY <1>1, <1>2, <1>3, <1>4, <1>5, <1>6, <1>7, <1>8, <1>9, <1>10, <1>11, <1>12, <1>13,
       <1>14, <1>15, <1>16, <1>17, <1>18
       DEF Next, Chat, Post, Manage

\* The history of messages only grows.
LEMMA EverGrows ==
    ASSUME TypeInv, TypeInv', [Next]_vars
    PROVE  /\ Cardinality(ever) <= Cardinality(ever') /\ Cardinality(ever) \in Nat /\ Cardinality(ever') \in Nat
           /\ Size \in Nat /\ Size <= Cardinality(ever)
  <1>1. ever \subseteq ever'
    BY DEF Next, Chat, Post, Manage, vars, history, NewConversation, Rename, RenameCommits,
           DeleteConversation, ChatCreates, ChatStores, ChatRereads, ChatCounts,
           ChatFinishes, ChatFinishesUnsaved, PostLoads, PostStores, PostRereads,
           PostFinishes, PostFinishesUnsaved, DeleteMessage, Fails
  <1>2. Finite /\ Finite'
    BY DEF TypeInv
  <1>3. Cardinality(ever) <= Cardinality(ever')
    BY <1>1, <1>2, FS_Subset DEF Finite
  <1>4. Cardinality(ever') \in Nat
    BY <1>2, FS_CardinalityType DEF Finite
  <1>5. QED
    BY <1>2, <1>3, <1>4, Sizes

LEMMA BehindInductive ==
    ASSUME TypeInv, TypeInv', Fresh, Behind, [Next]_vars
    PROVE  Behind'
  <1>1. ASSUME NEW r \in Requests, NEW t \in Names \cup {Empty}, NewConversation(r, t)
        PROVE  Behind'
    <2>1. CountNeverAhead'
      BY <1>1, EverGrows DEF NewConversation, CountNeverAhead
    <2>2. ASSUME NEW p \in Requests
          PROVE  Promise(p)'
      <3>1. Promise(p) /\ CountNeverAhead
        BY DEF Behind
      <3>2. QED
        BY <1>1, <3>1 DEF NewConversation, Promise, Goto, Ends, Begins, history
    <2>3. QED
      BY <2>1, <2>2 DEF Behind
  <1>2. ASSUME NEW r \in Requests, NEW t \in Names \cup {Empty}, Rename(r, t)
        PROVE  Behind'
    <2>1. CountNeverAhead'
      BY <1>2 DEF Rename, Behind, CountNeverAhead, history
    <2>2. ASSUME NEW p \in Requests
          PROVE  Promise(p)'
      <3>1. Promise(p) /\ CountNeverAhead
        BY DEF Behind
      <3>2. QED
        BY <1>2, <3>1 DEF Rename, Promise, Goto, Begins, history
    <2>3. QED
      BY <2>1, <2>2 DEF Behind
  <1>3. ASSUME NEW r \in Requests, RenameCommits(r)
        PROVE  Behind'
    <2>1. CountNeverAhead'
      BY <1>3 DEF RenameCommits, TypeInv, TypeOK, Behind, CountNeverAhead
    <2>2. ASSUME NEW p \in Requests
          PROVE  Promise(p)'
      <3>1. Promise(p) /\ CountNeverAhead
        BY DEF Behind
      <3>2. QED
        BY <1>3, <3>1 DEF RenameCommits, Promise, Goto, Ends
    <2>3. QED
      BY <2>1, <2>2 DEF Behind
  <1>4. ASSUME NEW r \in Requests, DeleteConversation(r)
        PROVE  Behind'
    <2>1. CountNeverAhead'
      BY <1>4 DEF DeleteConversation, Behind, CountNeverAhead, history
    <2>2. ASSUME NEW p \in Requests
          PROVE  Promise(p)'
      <3>1. Promise(p) /\ CountNeverAhead
        BY DEF Behind
      <3>2. QED
        BY <1>4, <3>1 DEF DeleteConversation, Promise, Goto, Ends, Begins, history
    <2>3. QED
      BY <2>1, <2>2 DEF Behind
  <1>5. ASSUME NEW r \in Requests, NEW q \in Questions, ChatCreates(r, q)
        PROVE  Behind'
    <2>1. CountNeverAhead'
      BY <1>5, EverGrows DEF ChatCreates, CountNeverAhead
    <2>2. ASSUME NEW p \in Requests
          PROVE  Promise(p)'
      <3>1. Promise(p) /\ CountNeverAhead
        BY DEF Behind
      <3>2. QED
        BY <1>5, <3>1 DEF ChatCreates, Promise, Goto, Begins, history
    <2>3. QED
      BY <2>1, <2>2 DEF Behind
  <1>6. ASSUME NEW r \in Requests, NEW q \in Questions, ChatStores(r, q)
        PROVE  Behind'
    <2>1. CountNeverAhead'
      BY <1>6, EverGrows DEF ChatStores, TypeInv, TypeOK, Behind, CountNeverAhead
    <2>2. ASSUME NEW p \in Requests
          PROVE  Promise(p)'
      <3>1. Promise(p) /\ CountNeverAhead
        BY DEF Behind
      <3>2. QED
        BY <1>6, <3>1, EverGrows DEF ChatStores, TypeInv, TypeOK, Loaded, Promise, Goto
    <2>3. QED
      BY <2>1, <2>2 DEF Behind
  <1>7. ASSUME NEW r \in Requests, ChatRereads(r)
        PROVE  Behind'
    <2>1. CountNeverAhead'
      BY <1>7 DEF ChatRereads, Behind, CountNeverAhead, history
    <2>2. ASSUME NEW p \in Requests
          PROVE  Promise(p)'
      <3>1. Promise(p) /\ CountNeverAhead
        BY DEF Behind
      <3>2. QED
        BY <1>7, <3>1 DEF ChatRereads, Promise, Goto, history
    <2>3. QED
      BY <2>1, <2>2 DEF Behind
  <1>8. ASSUME NEW r \in Requests, ChatCounts(r)
        PROVE  Behind'
    <2>1. CountNeverAhead'
      BY <1>8 DEF ChatCounts, Behind, CountNeverAhead
    <2>2. ASSUME NEW p \in Requests
          PROVE  Promise(p)'
      <3>1. Promise(p) /\ CountNeverAhead
        BY DEF Behind
      <3>2. QED
        BY <1>8, <3>1, EverGrows DEF ChatCounts, TypeInv, TypeOK, Promise, Goto
    <2>3. QED
      BY <2>1, <2>2 DEF Behind
  <1>9. ASSUME NEW r \in Requests, ChatFinishes(r)
        PROVE  Behind'
    <2>1. CountNeverAhead'
      <3>1. conv'.count = seen[r] /\ seen[r] <= Cardinality(ever)
        BY <1>9 DEF ChatFinishes, TypeInv, TypeOK, Behind, Promise
      <3>2. UNCHANGED ever
        BY <1>9 DEF ChatFinishes
      <3>3. QED
        BY <3>1, <3>2 DEF CountNeverAhead
    <2>2. ASSUME NEW p \in Requests
          PROVE  Promise(p)'
      <3>1. Promise(p) /\ CountNeverAhead
        BY DEF Behind
      <3>2. QED
        BY <1>9, <3>1, EverGrows DEF ChatFinishes, Promise, Goto, Ends
    <2>3. QED
      BY <2>1, <2>2 DEF Behind
  <1>10. ASSUME NEW r \in Requests, ChatFinishesUnsaved(r)
        PROVE  Behind'
    <2>1. CountNeverAhead'
      BY <1>10 DEF ChatFinishesUnsaved, Behind, CountNeverAhead, history
    <2>2. ASSUME NEW p \in Requests
          PROVE  Promise(p)'
      <3>1. Promise(p) /\ CountNeverAhead
        BY DEF Behind
      <3>2. QED
        BY <1>10, <3>1, EverGrows DEF ChatFinishesUnsaved, Promise, Goto, Ends, history
    <2>3. QED
      BY <2>1, <2>2 DEF Behind
  <1>11. ASSUME NEW r \in Requests, PostLoads(r)
        PROVE  Behind'
    <2>1. CountNeverAhead'
      BY <1>11 DEF PostLoads, Behind, CountNeverAhead
    <2>2. ASSUME NEW p \in Requests
          PROVE  Promise(p)'
      <3>1. Promise(p) /\ CountNeverAhead
        BY DEF Behind
      <3>2. QED
        BY <1>11, <3>1
           DEF PostLoads, TypeInv, TypeOK, Promise, CountNeverAhead, Object, Goto
    <2>3. QED
      BY <2>1, <2>2 DEF Behind
  <1>12. ASSUME NEW r \in Requests, PostStores(r)
        PROVE  Behind'
    <2>1. CountNeverAhead'
      BY <1>12, EverGrows DEF PostStores, TypeInv, TypeOK, Behind, CountNeverAhead
    <2>2. Cardinality(ever') = Cardinality(ever) + 1
      <3>1. IsFiniteSet(ever) /\ Asked(r) \notin ever
        BY <1>12 DEF PostStores, TypeInv, Finite, Fresh
      <3>2. ever' = ever \cup {Asked(r)}
        BY <1>12 DEF PostStores
      <3>3. QED
        BY <3>1, <3>2, FS_AddElement
    <2>3. ASSUME NEW p \in Requests
          PROVE  Promise(p)'
      <3>1. Promise(p)
        BY DEF Behind
      <3>2. UNCHANGED <<obj, seen>> /\ pc' = [pc EXCEPT ![r] = "posted"] /\ pc[r] = "loaded"
        BY <1>12 DEF PostStores, Goto
      <3>3. obj[p].count \in Nat /\ seen[p] \in Nat /\ pc \in [Requests -> Stages]
        BY DEF TypeInv, TypeOK, Loaded
      <3>4. QED
        BY <2>2, <3>1, <3>2, <3>3, EverGrows DEF Promise
    <2>4. QED
      BY <2>1, <2>3 DEF Behind
  <1>13. ASSUME NEW r \in Requests, PostRereads(r)
        PROVE  Behind'
    <2>1. CountNeverAhead'
      BY <1>13 DEF PostRereads, Behind, CountNeverAhead, history
    <2>2. ASSUME NEW p \in Requests
          PROVE  Promise(p)'
      <3>1. Promise(p) /\ CountNeverAhead
        BY DEF Behind
      <3>2. QED
        BY <1>13, <3>1 DEF PostRereads, Promise, Goto, history
    <2>3. QED
      BY <2>1, <2>2 DEF Behind
  <1>14. ASSUME NEW r \in Requests, PostFinishes(r)
        PROVE  Behind'
    <2>1. CountNeverAhead'
      <3>1. conv'.count = obj[r].count + 1
        BY <1>14 DEF PostFinishes, Increment, TypeInv, TypeOK
      <3>2. obj[r].count < Cardinality(ever) /\ obj[r].count \in Nat
        BY <1>14 DEF PostFinishes, Behind, Promise, TypeInv, TypeOK, Loaded
      <3>3. UNCHANGED ever
        BY <1>14 DEF PostFinishes
      <3>4. QED
        BY <3>1, <3>2, <3>3, EverGrows DEF CountNeverAhead
    <2>2. ASSUME NEW p \in Requests
          PROVE  Promise(p)'
      <3>1. Promise(p) /\ CountNeverAhead
        BY DEF Behind
      <3>2. QED
        BY <1>14, <3>1 DEF PostFinishes, TypeInv, TypeOK, Promise, Goto, Ends
    <2>3. QED
      BY <2>1, <2>2 DEF Behind
  <1>15. ASSUME NEW r \in Requests, PostFinishesUnsaved(r)
        PROVE  Behind'
    <2>1. CountNeverAhead'
      BY <1>15 DEF PostFinishesUnsaved, Behind, CountNeverAhead, history
    <2>2. ASSUME NEW p \in Requests
          PROVE  Promise(p)'
      <3>1. Promise(p) /\ CountNeverAhead
        BY DEF Behind
      <3>2. QED
        BY <1>15, <3>1
           DEF PostFinishesUnsaved, TypeInv, TypeOK, Promise, Goto, Ends, history
    <2>3. QED
      BY <2>1, <2>2 DEF Behind
  <1>16. ASSUME NEW r \in Requests, NEW m \in messages, DeleteMessage(r, m)
        PROVE  Behind'
    <2>1. CountNeverAhead'
      BY <1>16 DEF DeleteMessage, Behind, CountNeverAhead
    <2>2. ASSUME NEW p \in Requests
          PROVE  Promise(p)'
      <3>1. Promise(p) /\ CountNeverAhead
        BY DEF Behind
      <3>2. QED
        BY <1>16, <3>1 DEF DeleteMessage, Promise, Goto, Ends, Begins
    <2>3. QED
      BY <2>1, <2>2 DEF Behind
  <1>17. ASSUME NEW r \in Requests, Fails(r)
        PROVE  Behind'
    <2>1. CountNeverAhead'
      BY <1>17 DEF Fails, Behind, CountNeverAhead
    <2>2. ASSUME NEW p \in Requests
          PROVE  Promise(p)'
      <3>1. Promise(p) /\ CountNeverAhead
        BY DEF Behind
      <3>2. QED
        BY <1>17, <3>1 DEF Fails, TypeInv, TypeOK, Promise, Goto, Ends
    <2>3. QED
      BY <2>1, <2>2 DEF Behind
  <1>18. CASE UNCHANGED vars
    <2>1. CountNeverAhead'
      BY <1>18 DEF vars, system, Behind, CountNeverAhead, history
    <2>2. ASSUME NEW p \in Requests
          PROVE  Promise(p)'
      <3>1. Promise(p) /\ CountNeverAhead
        BY DEF Behind
      <3>2. QED
        BY <1>18, <3>1 DEF vars, system, Promise, history
    <2>3. QED
      BY <2>1, <2>2 DEF Behind
  <1>19. QED
    BY <1>1, <1>2, <1>3, <1>4, <1>5, <1>6, <1>7, <1>8, <1>9, <1>10, <1>11, <1>12, <1>13,
       <1>14, <1>15, <1>16, <1>17, <1>18
       DEF Next, Chat, Post, Manage

LEMMA BehindHolds == Spec => [](TypeInv /\ Fresh /\ Behind)
  <1>1. Init => Fresh /\ Behind
    <2>1. ASSUME Init
          PROVE  Fresh /\ CountNeverAhead
      BY <2>1, FS_EmptySet DEF Init, Fresh, CountNeverAhead
    <2>2. ASSUME Init, NEW r \in Requests
          PROVE  Promise(r)
      BY <2>2 DEF Init, Promise
    <2>3. QED
      BY <2>1, <2>2 DEF Behind
  <1>2. TypeInv /\ TypeInv' /\ Fresh /\ Behind /\ [Next]_vars => Fresh' /\ Behind'
    BY FreshInductive, BehindInductive
  <1>3. QED
    BY <1>1, <1>2, TypeInvHolds, PTL DEF Spec

\* message_count is never larger than the number of messages the conversation
\* ever had, whatever overlaps, is deleted or fails (services.py:1075-1078,
\* repositories.py:476-498).
THEOREM CountBounded == Spec => []CountNeverAhead
  <1>1. Behind => CountNeverAhead
    BY DEF Behind
  <1>2. QED
    BY <1>1, BehindHolds, PTL

----------------------------------------------------------------------------
(* Every drift of message_count has a cause *)

\* Nothing has happened before the conversation is created.
Before ==
    conv.state = "none" =>
        /\ messages = {}
        /\ owner = "creation"
        /\ \A r \in Requests : pc[r] = "idle"

\* What an undisturbed request has read is still so.
Views ==
    Live => \A r \in Requests : ~ disturbed[r] =>
                /\ pc[r] = "counted" => seen[r] = Size
                /\ pc[r] = "loaded" => obj[r].count = conv.count

\* r will write the right count, or say that it was disturbed.
Repairs(r) ==
    \/ pc[r] \in {"stored", "reread", "counted"}
    \/ pc[r] \in {"posted", "confirmed"} /\ (disturbed[r] \/ obj[r].count + 1 = Size)

\* While there is no cause, a wrong count is about to be repaired, and so is the
\* one that a posted message may be about to write.
Drift ==
    Live /\ cause = {} =>
        \/ \E r \in Requests : Repairs(r)
        \/ conv.count = Size /\ \A r \in Requests : pc[r] \notin {"posted", "confirmed"}

LEMMA BeforeInductive ==
    ASSUME TypeInv, Before, [Next]_vars
    PROVE  Before'
  <1>1. ASSUME NEW r \in Requests, NEW t \in Names \cup {Empty}, NewConversation(r, t)
        PROVE  Before'
    BY <1>1 DEF NewConversation, Before
  <1>2. ASSUME NEW r \in Requests, NEW t \in Names \cup {Empty}, Rename(r, t)
        PROVE  Before'
    BY <1>2 DEF Rename, Before, Live
  <1>3. ASSUME NEW r \in Requests, RenameCommits(r)
        PROVE  Before'
    BY <1>3 DEF RenameCommits, TypeInv, TypeOK, Before
  <1>4. ASSUME NEW r \in Requests, DeleteConversation(r)
        PROVE  Before'
    BY <1>4 DEF DeleteConversation, Before
  <1>5. ASSUME NEW r \in Requests, NEW q \in Questions, ChatCreates(r, q)
        PROVE  Before'
    BY <1>5 DEF ChatCreates, Before
  <1>6. ASSUME NEW r \in Requests, NEW q \in Questions, ChatStores(r, q)
        PROVE  Before'
    BY <1>6 DEF ChatStores, Before, Live
  <1>7. ASSUME NEW r \in Requests, ChatRereads(r)
        PROVE  Before'
    BY <1>7 DEF ChatRereads, Before
  <1>8. ASSUME NEW r \in Requests, ChatCounts(r)
        PROVE  Before'
    BY <1>8 DEF ChatCounts, Before
  <1>9. ASSUME NEW r \in Requests, ChatFinishes(r)
        PROVE  Before'
    BY <1>9 DEF ChatFinishes, Before
  <1>10. ASSUME NEW r \in Requests, ChatFinishesUnsaved(r)
        PROVE  Before'
    BY <1>10 DEF ChatFinishesUnsaved, Before
  <1>11. ASSUME NEW r \in Requests, PostLoads(r)
        PROVE  Before'
    BY <1>11 DEF PostLoads, Before, Live
  <1>12. ASSUME NEW r \in Requests, PostStores(r)
        PROVE  Before'
    BY <1>12 DEF PostStores, Before
  <1>13. ASSUME NEW r \in Requests, PostRereads(r)
        PROVE  Before'
    BY <1>13 DEF PostRereads, Before
  <1>14. ASSUME NEW r \in Requests, PostFinishes(r)
        PROVE  Before'
    BY <1>14 DEF PostFinishes, Before
  <1>15. ASSUME NEW r \in Requests, PostFinishesUnsaved(r)
        PROVE  Before'
    BY <1>15 DEF PostFinishesUnsaved, Before
  <1>16. ASSUME NEW r \in Requests, NEW m \in messages, DeleteMessage(r, m)
        PROVE  Before'
    BY <1>16 DEF DeleteMessage, Before
  <1>17. ASSUME NEW r \in Requests, Fails(r)
        PROVE  Before'
    BY <1>17 DEF Fails, Before, Active, Viewing, Uncounted
  <1>18. CASE UNCHANGED vars
    BY <1>18 DEF vars, system, Before, history
  <1>19. QED
    BY <1>1, <1>2, <1>3, <1>4, <1>5, <1>6, <1>7, <1>8, <1>9, <1>10, <1>11, <1>12, <1>13,
       <1>14, <1>15, <1>16, <1>17, <1>18
       DEF Next, Chat, Post, Manage

LEMMA ViewsInductive ==
    ASSUME TypeInv, Before, Views, [Next]_vars
    PROVE  Views'
  <1>1. ASSUME NEW r \in Requests, NEW t \in Names \cup {Empty}, NewConversation(r, t)
        PROVE  Views'
    BY <1>1 DEF NewConversation, Before, Views, Goto, Ends
  <1>2. ASSUME NEW r \in Requests, NEW t \in Names \cup {Empty}, Rename(r, t)
        PROVE  Views'
    BY <1>2 DEF Rename, Views, Size, Goto, Begins, history
  <1>3. ASSUME NEW r \in Requests, RenameCommits(r)
        PROVE  Views'
    BY <1>3 DEF RenameCommits, TypeInv, TypeOK, Views, Size, Goto, Ends
  <1>4. ASSUME NEW r \in Requests, DeleteConversation(r)
        PROVE  Views'
    BY <1>4 DEF DeleteConversation, Views, Live
  <1>5. ASSUME NEW r \in Requests, NEW q \in Questions, ChatCreates(r, q)
        PROVE  Views'
    BY <1>5 DEF ChatCreates, Before, Views, Goto
  <1>6. ASSUME NEW r \in Requests, NEW q \in Questions, ChatStores(r, q)
        PROVE  Views'
    BY <1>6 DEF ChatStores, TypeInv, TypeOK, Views, Disturb, Viewing, Goto
  <1>7. ASSUME NEW r \in Requests, ChatRereads(r)
        PROVE  Views'
    BY <1>7 DEF ChatRereads, Views, Live, Size, Goto, history
  <1>8. ASSUME NEW r \in Requests, ChatCounts(r)
        PROVE  Views'
    BY <1>8 DEF ChatCounts, TypeInv, TypeOK, Views, Live, Size, Goto
  <1>9. ASSUME NEW r \in Requests, ChatFinishes(r)
        PROVE  Views'
    BY <1>9 DEF ChatFinishes, TypeInv, TypeOK, Views, Disturb, Viewing, Goto, Ends
  <1>10. ASSUME NEW r \in Requests, ChatFinishesUnsaved(r)
        PROVE  Views'
    BY <1>10 DEF ChatFinishesUnsaved, Views, Live
  <1>11. ASSUME NEW r \in Requests, PostLoads(r)
        PROVE  Views'
    BY <1>11 DEF PostLoads, TypeInv, TypeOK, Views, Size, Object, Goto
  <1>12. ASSUME NEW r \in Requests, PostStores(r)
        PROVE  Views'
    BY <1>12 DEF PostStores, TypeInv, TypeOK, Views, Disturb, Viewing, Goto
  <1>13. ASSUME NEW r \in Requests, PostRereads(r)
        PROVE  Views'
    BY <1>13 DEF PostRereads, Views, Live, Size, Goto, history
  <1>14. ASSUME NEW r \in Requests, PostFinishes(r)
        PROVE  Views'
    BY <1>14 DEF PostFinishes, TypeInv, TypeOK, Views, Disturb, Viewing, Goto, Ends
  <1>15. ASSUME NEW r \in Requests, PostFinishesUnsaved(r)
        PROVE  Views'
    BY <1>15 DEF PostFinishesUnsaved, Views, Live
  <1>16. ASSUME NEW r \in Requests, NEW m \in messages, DeleteMessage(r, m)
        PROVE  Views'
    BY <1>16 DEF DeleteMessage, TypeInv, TypeOK, Views, Disturb, Viewing, Goto, Ends
  <1>17. ASSUME NEW r \in Requests, Fails(r)
        PROVE  Views'
    BY <1>17 DEF Fails, TypeInv, TypeOK, Views, Live, Size, Goto, Ends
  <1>18. CASE UNCHANGED vars
    BY <1>18 DEF vars, system, Views, Live, Size, history
  <1>19. QED
    BY <1>1, <1>2, <1>3, <1>4, <1>5, <1>6, <1>7, <1>8, <1>9, <1>10, <1>11, <1>12, <1>13,
       <1>14, <1>15, <1>16, <1>17, <1>18
       DEF Next, Chat, Post, Manage

LEMMA DriftInductive ==
    ASSUME TypeInv, Before, Fresh, Views, Drift, [Next]_vars
    PROVE  Drift'
  <1>1. ASSUME NEW r \in Requests, NEW t \in Names \cup {Empty}, NewConversation(r, t)
        PROVE  Drift'
    <2>1. conv.state = "none"
      BY <1>1 DEF NewConversation
    <2>2. messages' = {} /\ conv'.count = 0 /\ \A p \in Requests : pc'[p] \notin {"posted", "confirmed"}
      BY <1>1, <2>1 DEF NewConversation, Before, Goto, Ends
    <2>3. QED
      BY <2>2, FS_EmptySet DEF Drift, Size
  <1>2. ASSUME NEW r \in Requests, NEW t \in Names \cup {Empty}, Rename(r, t)
        PROVE  Drift'
    BY <1>2 DEF Rename, Drift, Repairs, Size, Goto, Begins, history
  <1>3. ASSUME NEW r \in Requests, RenameCommits(r)
        PROVE  Drift'
    BY <1>3 DEF RenameCommits, TypeInv, TypeOK, Drift, Repairs, Size, Goto, Ends
  <1>4. ASSUME NEW r \in Requests, DeleteConversation(r)
        PROVE  Drift'
    BY <1>4 DEF DeleteConversation, Drift, Live
  <1>5. ASSUME NEW r \in Requests, NEW q \in Questions, ChatCreates(r, q)
        PROVE  Drift'
    <2>1. conv.state = "none"
      BY <1>5 DEF ChatCreates
    <2>2. messages' = {} /\ conv'.count = 0 /\ \A p \in Requests : pc'[p] \notin {"posted", "confirmed"}
      BY <1>5, <2>1 DEF ChatCreates, Before, Goto, Ends
    <2>3. QED
      BY <2>2, FS_EmptySet DEF Drift, Size
  <1>6. ASSUME NEW r \in Requests, NEW q \in Questions, ChatStores(r, q)
        PROVE  Drift'
    BY <1>6 DEF ChatStores, TypeInv, TypeOK, Drift, Repairs, Goto
  <1>7. ASSUME NEW r \in Requests, ChatRereads(r)
        PROVE  Drift'
    BY <1>7 DEF ChatRereads, Drift, Repairs, Goto
  <1>8. ASSUME NEW r \in Requests, ChatCounts(r)
        PROVE  Drift'
    BY <1>8 DEF ChatCounts, Drift, Repairs, Goto
  <1>9. ASSUME NEW r \in Requests, ChatFinishes(r)
        PROVE  Drift'
    <2>1. CASE disturbed[r]
      BY <1>9, <2>1 DEF ChatFinishes, Drift
    <2>2. CASE ~ disturbed[r]
      <3>1. conv'.count = seen[r] /\ seen[r] = Size /\ Size' = Size
        BY <1>9, <2>2 DEF ChatFinishes, Views, Size
      <3>2. \A p \in Requests : pc'[p] \in {"posted", "confirmed"} => p # r /\ pc'[p] = pc[p] /\ disturbed'[p]
        BY <1>9 DEF ChatFinishes, Ends, Goto, Disturb, Viewing, TypeInv, TypeOK
      <3>3. \A p \in Requests : pc'[p] \in {"posted", "confirmed"} => Repairs(p)'
        BY <3>2 DEF Repairs
      <3>4. QED
        BY <3>1, <3>3 DEF Drift
    <2>3. QED
      BY <2>1, <2>2
  <1>10. ASSUME NEW r \in Requests, ChatFinishesUnsaved(r)
        PROVE  Drift'
    BY <1>10 DEF ChatFinishesUnsaved, Drift, Live
  <1>11. ASSUME NEW r \in Requests, PostLoads(r)
        PROVE  Drift'
    BY <1>11 DEF PostLoads, Drift, Repairs, Size, Goto, Begins
  <1>12. ASSUME NEW r \in Requests, PostStores(r)
        PROVE  Drift'
    <2>1. SUFFICES ASSUME Live', cause' = {}
                 PROVE  \E p \in Requests : Repairs(p)'
      BY DEF Drift
    <2>2. Live /\ cause = {} /\ pc[r] = "loaded"
      BY <1>12, <2>1 DEF PostStores
    <2>3. ASSUME NEW p \in Requests, Repairs(p)
          PROVE  Repairs(p)'
      <3>1. p # r
        BY <2>2, <2>3 DEF Repairs
      <3>2. pc'[p] = pc[p] /\ (pc[p] \in {"posted", "confirmed"} => disturbed'[p])
        BY <1>12, <3>1 DEF PostStores, Goto, Disturb, Viewing, TypeInv, TypeOK
      <3>3. QED
        BY <2>3, <3>2 DEF Repairs
    <2>4. CASE \E p \in Requests : Repairs(p)
      BY <2>3, <2>4
    <2>5. CASE ~ \E p \in Requests : Repairs(p)
      <3>1. conv.count = Size
        BY <2>2, <2>5 DEF Drift
      <3>2. Size' = Size + 1
        <4>1. IsFiniteSet(messages) /\ Asked(r) \notin messages
          BY <2>2, FS_Subset DEF TypeInv, Finite, Fresh
        <4>2. messages' = messages \cup {Asked(r)}
          BY <1>12 DEF PostStores
        <4>3. QED
          BY <4>1, <4>2, FS_AddElement DEF Size
      <3>3. disturbed[r] \/ obj[r].count = conv.count
        BY <2>2 DEF Views
      <3>4. pc'[r] = "posted" /\ disturbed'[r] = disturbed[r] /\ obj' = obj
        BY <1>12 DEF PostStores, Goto, Disturb, TypeInv, TypeOK
      <3>5. Repairs(r)'
        BY <3>1, <3>2, <3>3, <3>4 DEF Repairs
      <3>6. QED
        BY <3>5
    <2>6. QED
      BY <2>4, <2>5
  <1>13. ASSUME NEW r \in Requests, PostRereads(r)
        PROVE  Drift'
    BY <1>13 DEF PostRereads, Drift, Repairs, Live, Size, Goto, history
  <1>14. ASSUME NEW r \in Requests, PostFinishes(r)
        PROVE  Drift'
    <2>1. CASE disturbed[r]
      BY <1>14, <2>1 DEF PostFinishes, Drift
    <2>2. CASE ~ disturbed[r]
      <3>1. SUFFICES ASSUME Live', cause' = {}
                   PROVE  \/ \E p \in Requests : Repairs(p)'
                          \/ conv'.count = Size' /\ \A p \in Requests : pc'[p] \notin {"posted", "confirmed"}
        BY DEF Drift
      <3>2. Live /\ cause = {} /\ pc[r] = "confirmed" /\ Size' = Size /\ conv'.count = obj[r].count + 1
        BY <1>14, <2>2, <3>1 DEF PostFinishes, Increment, Size
      <3>3. ASSUME NEW p \in Requests, p # r, pc[p] \in {"stored", "reread", "counted", "posted", "confirmed"},
                   Repairs(p) \/ pc[p] \in {"posted", "confirmed"}
            PROVE  Repairs(p)'
        <4>1. pc'[p] = pc[p] /\ (pc[p] \in {"posted", "confirmed"} => disturbed'[p])
          BY <1>14, <3>3 DEF PostFinishes, Goto, Ends, Disturb, Viewing, TypeInv, TypeOK
        <4>2. QED
          BY <3>3, <4>1 DEF Repairs
      <3>4. pc'[r] = "done" /\ \A p \in Requests : p # r => pc'[p] = pc[p]
        BY <1>14 DEF PostFinishes, Goto, Ends, TypeInv, TypeOK
      <3>5. CASE \E p \in Requests : p # r /\ (Repairs(p) \/ pc[p] \in {"posted", "confirmed"})
        BY <3>3, <3>5 DEF Repairs
      <3>6. CASE ~ \E p \in Requests : p # r /\ (Repairs(p) \/ pc[p] \in {"posted", "confirmed"})
        <4>1. Repairs(r)
          BY <3>2, <3>6 DEF Drift
        <4>2. obj[r].count + 1 = Size
          BY <2>2, <3>2, <4>1 DEF Repairs
        <4>3. QED
          BY <3>2, <3>4, <3>6, <4>2
      <3>7. QED
        BY <3>5, <3>6
    <2>3. QED
      BY <2>1, <2>2
  <1>15. ASSUME NEW r \in Requests, PostFinishesUnsaved(r)
        PROVE  Drift'
    BY <1>15 DEF PostFinishesUnsaved, Drift, Live
  <1>16. ASSUME NEW r \in Requests, NEW m \in messages, DeleteMessage(r, m)
        PROVE  Drift'
    BY <1>16 DEF DeleteMessage, Drift
  <1>17. ASSUME NEW r \in Requests, Fails(r)
        PROVE  Drift'
    <2>1. CASE r \in Uncounted
      BY <1>17, <2>1 DEF Fails, Drift
    <2>2. CASE r \notin Uncounted
      <3>1. ~ Repairs(r)
        BY <2>2 DEF Uncounted, Repairs
      <3>2. \A p \in Requests : p # r => Repairs(p)' = Repairs(p) /\ pc'[p] = pc[p]
        BY <1>17 DEF Fails, Ends, Goto, Repairs, Size
      <3>3. pc'[r] = "failed" /\ cause' = cause /\ Live' = Live /\ Size' = Size /\ conv' = conv
        BY <1>17, <2>2 DEF Fails, Ends, Goto, Live, Size, TypeInv, TypeOK
      <3>4. QED
        BY <3>1, <3>2, <3>3 DEF Drift
    <2>3. QED
      BY <2>1, <2>2
  <1>18. CASE UNCHANGED vars
    BY <1>18 DEF vars, system, Drift, Repairs, Live, Size, history
  <1>19. QED
    BY <1>1, <1>2, <1>3, <1>4, <1>5, <1>6, <1>7, <1>8, <1>9, <1>10, <1>11, <1>12, <1>13,
       <1>14, <1>15, <1>16, <1>17, <1>18
       DEF Next, Chat, Post, Manage

LEMMA DriftHolds == Spec => [](TypeInv /\ Fresh /\ Before /\ Views /\ Drift)
  <1>1. Init => Before /\ Views /\ Drift
    BY DEF Init, Before, Views, Drift, Live
  <1>2. TypeInv /\ TypeInv' /\ Fresh /\ Before /\ Views /\ Drift /\ [Next]_vars
            => Before' /\ Views' /\ Drift'
    BY BeforeInductive, ViewsInductive, DriftInductive
  <1>3. QED
    BY <1>1, <1>2, BehindHolds, PTL DEF Spec

\* In a conversation where no request is under way, a message_count other than
\* the number of messages goes back to a deleted message, to a request that
\* failed after its commit, or to two that overlapped
\* (services.py:1066-1079, repositories.py:476-498).
THEOREM DriftExplained == Spec => []EveryDriftHasACause
  <1>1. Drift => EveryDriftHasACause
    <2>1. ASSUME Quiet, NEW r \in Requests
          PROVE  ~ Repairs(r)
      BY <2>1 DEF Quiet, Active, Viewing, Uncounted, Repairs
    <2>2. QED
      BY <2>1 DEF Drift, EveryDriftHasACause, Quiet
  <1>2. QED
    BY <1>1, DriftHolds, PTL

----------------------------------------------------------------------------
(* No chat replaces the user's title *)

\* A chat that holds the conversation's object created it, titled with its text.
Known ==
    \A r \in Requests :
        /\ pc[r] = "idle" => obj[r] = NoObject
        /\ pc[r] \in {"created", "stored", "reread", "counted"} =>
              obj[r] = NoObject \/ obj[r].title = text[r]

LEMMA KnownInductive ==
    ASSUME TypeInv, Known, [Next]_vars
    PROVE  Known'
  <1>1. ASSUME NEW r \in Requests, NEW t \in Names \cup {Empty}, NewConversation(r, t)
        PROVE  Known'
    BY <1>1 DEF NewConversation, Known, Goto, Ends, Begins
  <1>2. ASSUME NEW r \in Requests, NEW t \in Names \cup {Empty}, Rename(r, t)
        PROVE  Known'
    BY <1>2 DEF Rename, TypeInv, TypeOK, Known, Goto
  <1>3. ASSUME NEW r \in Requests, RenameCommits(r)
        PROVE  Known'
    BY <1>3 DEF RenameCommits, Known, Goto, Ends
  <1>4. ASSUME NEW r \in Requests, DeleteConversation(r)
        PROVE  Known'
    BY <1>4 DEF DeleteConversation, Known, Goto, Ends, Begins
  <1>5. ASSUME NEW r \in Requests, NEW q \in Questions, ChatCreates(r, q)
        PROVE  Known'
    BY <1>5 DEF ChatCreates, TypeInv, TypeOK, Known, Goto
  <1>6. ASSUME NEW r \in Requests, NEW q \in Questions, ChatStores(r, q)
        PROVE  Known'
    BY <1>6 DEF ChatStores, Known, Goto, Begins
  <1>7. ASSUME NEW r \in Requests, ChatRereads(r)
        PROVE  Known'
    BY <1>7 DEF ChatRereads, Known, Goto
  <1>8. ASSUME NEW r \in Requests, ChatCounts(r)
        PROVE  Known'
    BY <1>8 DEF ChatCounts, Known, Goto
  <1>9. ASSUME NEW r \in Requests, ChatFinishes(r)
        PROVE  Known'
    BY <1>9 DEF ChatFinishes, TypeInv, TypeOK, Known, Goto, Ends
  <1>10. ASSUME NEW r \in Requests, ChatFinishesUnsaved(r)
        PROVE  Known'
    BY <1>10 DEF ChatFinishesUnsaved, TypeInv, TypeOK, Known, Goto, Ends
  <1>11. ASSUME NEW r \in Requests, PostLoads(r)
        PROVE  Known'
    BY <1>11 DEF PostLoads, TypeInv, TypeOK, Known, Goto
  <1>12. ASSUME NEW r \in Requests, PostStores(r)
        PROVE  Known'
    BY <1>12 DEF PostStores, Known, Goto
  <1>13. ASSUME NEW r \in Requests, PostRereads(r)
        PROVE  Known'
    BY <1>13 DEF PostRereads, Known, Goto
  <1>14. ASSUME NEW r \in Requests, PostFinishes(r)
        PROVE  Known'
    BY <1>14 DEF PostFinishes, Known, Goto, Ends
  <1>15. ASSUME NEW r \in Requests, PostFinishesUnsaved(r)
        PROVE  Known'
    BY <1>15 DEF PostFinishesUnsaved, Known, Goto, Ends
  <1>16. ASSUME NEW r \in Requests, NEW m \in messages, DeleteMessage(r, m)
        PROVE  Known'
    BY <1>16 DEF DeleteMessage, Known, Goto, Ends, Begins
  <1>17. ASSUME NEW r \in Requests, Fails(r)
        PROVE  Known'
    BY <1>17 DEF Fails, TypeInv, TypeOK, Known, Goto, Ends
  <1>18. CASE UNCHANGED vars
    BY <1>18 DEF vars, system, Known
  <1>19. QED
    BY <1>1, <1>2, <1>3, <1>4, <1>5, <1>6, <1>7, <1>8, <1>9, <1>10, <1>11, <1>12, <1>13,
       <1>14, <1>15, <1>16, <1>17, <1>18
       DEF Next, Chat, Post, Manage

LEMMA KnownHolds == Spec => [](TypeInv /\ Before /\ Known)
  <1>1. Init => Known
    BY DEF Init, Known
  <1>2. TypeInv /\ Known /\ [Next]_vars => Known'
    BY KnownInductive
  <1>3. QED
    BY <1>1, <1>2, DriftHolds, PTL DEF Spec

\* Cleaning leaves a message that looks like a placeholder alone, or empties it.
Tame == \A q \in Questions : q \in Placeholders => Clean[q] \in {q, Empty}

Kept == owner = "user" /\ conv.title \notin Placeholders /\ conv'.title # conv.title => owner' = "user"

LEMMA TitleKept ==
    ASSUME Tame, TypeInv, Before, Known, [Next]_vars
    PROVE  Kept
  <1>1. ASSUME NEW r \in Requests, ChatFinishes(r)
        PROVE  Kept
    <2> DEFINE known == IF obj[r] = NoObject THEN conv.title ELSE obj[r].title
    <2>1. pc[r] = "counted" /\ text[r] \in Questions
      BY <1>1 DEF ChatFinishes, TypeInv, Carries
    <2>2. SUFFICES ASSUME conv.title \notin Placeholders
                 PROVE  conv'.title = conv.title
      BY DEF Kept
    <2>3. ~ (ShouldUpdateTitle(known) /\ CleanTitle(text[r]) # Empty /\ CleanTitle(text[r]) # known)
      <3>1. CASE obj[r] = NoObject
        BY <2>2, <3>1 DEF ShouldUpdateTitle
      <3>2. CASE obj[r] # NoObject
        <4>1. known = text[r]
          BY <2>1, <3>2 DEF Known
        <4>2. QED
          BY <2>1, <4>1 DEF ShouldUpdateTitle, CleanTitle, Tame
      <3>3. QED
        BY <3>1, <3>2
    <2>4. conv' = [conv EXCEPT !.count = seen[r], !.title = conv.title]
      BY <1>1, <2>3 DEF ChatFinishes
    <2>5. QED
      BY <2>4 DEF TypeInv, TypeOK
  <1>2. ASSUME NEW r \in Requests, RenameCommits(r)
        PROVE  Kept
    BY <1>2 DEF RenameCommits, Kept
  <1>3. ASSUME NEW r \in Requests, PostFinishes(r)
        PROVE  Kept
    BY <1>3 DEF PostFinishes, TypeInv, TypeOK, Kept
  <1>4. ASSUME NEW r \in Requests, DeleteConversation(r)
        PROVE  Kept
    BY <1>4 DEF DeleteConversation, TypeInv, TypeOK, Kept
  <1>5. CASE conv.state = "none"
    BY <1>5 DEF Before, Kept
  <1>6. CASE UNCHANGED conv
    BY <1>6 DEF Kept
  <1>7. QED
    BY <1>1, <1>2, <1>3, <1>4, <1>5, <1>6
       DEF Next, Chat, Post, Manage, vars, system, NewConversation, Rename, ChatCreates,
           ChatStores, ChatRereads, ChatCounts, ChatFinishesUnsaved, PostLoads, PostStores,
           PostRereads, PostFinishesUnsaved, DeleteMessage, Fails

\* If _clean_title leaves placeholders as they are, no chat replaces a title the
\* user has given, though it judges the title of the object it created, which
\* may be stale (rag_service.py:696-702).  The run ChatTitle shows that the
\* assumption is needed.
THEOREM RenamesStick == Tame => (Spec => RenameSticks)
  <1>1. SUFFICES ASSUME Tame
               PROVE  Spec => RenameSticks
    OBVIOUS
  <1>2. TypeInv /\ Before /\ Known /\ [Next]_vars => [Kept]_vars
    BY <1>1, TitleKept
  <1>3. [Kept]_vars <=> [owner = "user" /\ conv.title \notin Placeholders /\ conv'.title # conv.title
                            => owner' = "user"]_vars
    BY DEF Kept
  <1>4. QED
    BY <1>2, <1>3, KnownHolds, PTL DEF Spec, RenameSticks

============================================================================
