------------------------- MODULE PanelDevicesProofs -------------------------
(***************************************************************************)
(* Proofs about PanelDevices, for any number of clients, nodes and copies, *)
(* any pool and all expiries and rotations.                                *)
(***************************************************************************)
EXTENDS PanelDevices, ProofLemmas

USE DevicesAssumption

-----------------------------------------------------------------------------
(* The pool.                                                               *)

\* The address a new client is given comes from the free ones.
LEMMA LowestIsFree ==
    ASSUME FreeAddresses # {}
    PROVE  Lowest(FreeAddresses) \in FreeAddresses
<1>1. FreeAddresses \in SUBSET Nat
  BY DEF FreeAddresses
<1>2. \E i \in FreeAddresses : \A j \in FreeAddresses : i <= j
  BY <1>1, LeastExists
<1>. QED BY <1>2 DEF Lowest

-----------------------------------------------------------------------------
(* The inductive invariant.                                                *)

\* The four secrets of a client are of one rotation.
SecretsTogether ==
    \A c \in Client : Known(c) =>
        /\ clients[c].keyEnc = clients[c].key
        /\ clients[c].link = clients[c].key
        /\ clients[c].linkEnc = clients[c].key

\* A copy holds the secrets it was born with, and no answer under way to it
\* knows others.
CopyOld(d) ==
    /\ copies[d] # None =>
         /\ Known(copies[d].client)
         /\ copies[d].key = copies[d].born
         /\ copies[d].link = copies[d].born
         /\ copies[d].born <= clients[copies[d].client].key
    /\ asked[d] # None => copies[d] # None
    /\ asked[d] \notin {None, Asked} \cup Refusals => asked[d].key = copies[d].born

CopiesOld == \A d \in Copy : CopyOld(d)

IInv == TypeOK /\ AddressesUnique /\ SecretsTogether /\ CopiesOld

\* The null values are none of the others.
LEMMA Distinct ==
    /\ \A r \in Row : r # None
    /\ \A h \in Held : h # None
    /\ \A b \in BOOLEAN : b # None
    /\ \A a \in Answer : a # None /\ a # Asked
    /\ Asked # None
<1>1. \A a \in Answer : a # Asked
  <2>1. \A a \in Answer : a.status \in {200, 404, 410}
    BY DEF Answer, Refusals
  <2>2. Asked.status = 0
    BY DEF Asked
  <2>. QED BY <2>1, <2>2
<1>. QED BY <1>1, NoneAssumption

LEMMA InitInv == Init => IInv
<1>. SUFFICES ASSUME Init PROVE IInv
  OBVIOUS
<1>1. TypeOK
  BY DEF Init, TypeOK, Time
<1>2. AddressesUnique /\ SecretsTogether
  BY DEF Init, AddressesUnique, SecretsTogether, Known
<1>3. CopiesOld
  BY DEF Init, CopiesOld, CopyOld
<1>. QED BY <1>1, <1>2, <1>3 DEF IInv

\* Saving a node changes neither clients nor copies.
LEMMA NodeStep ==
    ASSUME IInv, NEW n \in Node, NEW enabled \in BOOLEAN, NodeSave(n, enabled)
    PROVE  IInv'
<1>. USE DEF IInv
<1>1. TypeOK'
  <2>1. nodes' \in [Node -> {None} \cup BOOLEAN]
    BY DEF NodeSave, TypeOK
  <2>2. KnownNodes \subseteq KnownNodes'
    BY Distinct DEF NodeSave, TypeOK, KnownNodes
  <2>. QED BY <2>1, <2>2 DEF NodeSave, TypeOK
<1>2. AddressesUnique' /\ SecretsTogether'
  BY DEF NodeSave, AddressesUnique, SecretsTogether, Known
<1>3. CopiesOld'
  BY DEF NodeSave, CopiesOld, CopyOld, Known
<1>. QED BY <1>1, <1>2, <1>3

\* A new client gets an address nobody has.
LEMMA CreateStep ==
    ASSUME IInv, NEW c \in Client, NEW ids \in SUBSET Node, NEW enabled \in BOOLEAN,
           NEW e \in Expiries, ClientCreate(c, ids, enabled, e)
    PROVE  IInv'
<1>. DEFINE row == [ip |-> Lowest(FreeAddresses), enabled |-> enabled, expires |-> e,
                    key |-> 0, keyEnc |-> 0, link |-> 0, linkEnc |-> 0]
<1>1. /\ ~Known(c)
      /\ clients' = [clients EXCEPT ![c] = row]
      /\ UNCHANGED <<nodes, now, copies, asked>>
  BY DEF ClientCreate
<1>2. Lowest(FreeAddresses) \in FreeAddresses
  BY LowestIsFree DEF ClientCreate
<1>3. row \in Row
  <2>1. Lowest(FreeAddresses) \in Pool
    BY <1>2 DEF FreeAddresses
  <2>2. 0 \in Rotation
    BY DEF Rotation
  <2>. HIDE DEF FreeAddresses
  <2>. QED BY <2>1, <2>2 DEF Row
<1>4. TypeOK'
  <2>1. clients' \in [Client -> {None} \cup Row]
    BY <1>1, <1>3 DEF IInv, TypeOK
  <2>2. assigned' \subseteq Client \X KnownNodes'
    BY <1>1 DEF IInv, TypeOK, ClientCreate, Assign, ValidInput, KnownNodes
  <2>. QED BY <1>1, <2>1, <2>2 DEF IInv, TypeOK
<1>5. \A x \in Client : clients'[x] = IF x = c THEN row ELSE clients[x]
  BY <1>1 DEF IInv, TypeOK
<1>6. AddressesUnique'
  <2>1. \A x \in Client : Known(x) => clients[x].ip # row.ip
    BY <1>2 DEF FreeAddresses
  <2>. QED BY <1>1, <1>5, <2>1 DEF IInv, AddressesUnique, Known
<1>7. SecretsTogether'
  BY <1>1, <1>5 DEF IInv, SecretsTogether, Known
<1>8. CopiesOld'
  <2>1. \A d \in Copy : copies[d] # None => copies[d].client \in Client \ {c}
    BY <1>1, Distinct DEF IInv, TypeOK, Held, CopiesOld, CopyOld, Known
  <2>. QED BY <1>1, <1>5, <2>1 DEF IInv, CopiesOld, CopyOld, Known
<1>. QED BY <1>4, <1>6, <1>7, <1>8 DEF IInv

\* A change to a row that keeps its address and secrets.
LEMMA RowStep ==
    ASSUME IInv, NEW c \in Client, Known(c), NEW row \in Row,
           row.ip = clients[c].ip,
           \A f \in {"key", "keyEnc", "link", "linkEnc"} : row[f] = clients[c][f],
           clients' = [clients EXCEPT ![c] = row],
           assigned' \subseteq Client \X KnownNodes,
           UNCHANGED <<nodes, now, copies, asked>>
    PROVE  IInv'
<1>1. \A x \in Client : clients'[x] = IF x = c THEN row ELSE clients[x]
  BY DEF IInv, TypeOK
<1>2. row # None
  BY Distinct
<1>3. TypeOK'
  BY DEF IInv, TypeOK, KnownNodes
<1>4. AddressesUnique'
  BY <1>1, <1>2 DEF IInv, AddressesUnique, Known
<1>5. SecretsTogether'
  BY <1>1, <1>2 DEF IInv, SecretsTogether, Known
<1>6. CopiesOld'
  <2>1. \A d \in Copy : copies[d] # None => copies[d].client \in Client
    BY Distinct DEF IInv, TypeOK, Held
  <2>. QED BY <1>1, <1>2, <2>1 DEF IInv, CopiesOld, CopyOld, Known
<1>. QED BY <1>3, <1>4, <1>5, <1>6 DEF IInv

LEMMA SaveStep ==
    ASSUME IInv, NEW c \in Client, NEW ids \in SUBSET Node, NEW enabled \in BOOLEAN,
           NEW e \in Expiries, ClientSave(c, ids, enabled, e)
    PROVE  IInv'
<1>. DEFINE row == [clients[c] EXCEPT !.enabled = enabled, !.expires = e]
<1>1. Known(c) /\ clients[c] \in Row
  BY Distinct DEF ClientSave, Known, IInv, TypeOK
<1>2. row \in Row /\ row.ip = clients[c].ip
  BY <1>1 DEF Row
<1>3. \A f \in {"key", "keyEnc", "link", "linkEnc"} : row[f] = clients[c][f]
  BY <1>1 DEF Row
<1>4. /\ clients' = [clients EXCEPT ![c] = row]
      /\ UNCHANGED <<nodes, now, copies, asked>>
  BY <1>1 DEF ClientSave, IInv, TypeOK
<1>5. assigned' \subseteq Client \X KnownNodes
  BY DEF IInv, TypeOK, ClientSave, Assign, ValidInput
<1>. HIDE DEF row
<1>. QED BY <1>1, <1>2, <1>3, <1>4, <1>5, RowStep

LEMMA AccessStep ==
    ASSUME IInv, NEW c \in Client, NEW enabled \in BOOLEAN, ClientAccess(c, enabled)
    PROVE  IInv'
<1>. DEFINE row == [clients[c] EXCEPT !.enabled = enabled]
<1>1. Known(c) /\ clients[c] \in Row
  BY Distinct DEF ClientAccess, Known, IInv, TypeOK
<1>2. row \in Row /\ row.ip = clients[c].ip
  BY <1>1 DEF Row
<1>3. \A f \in {"key", "keyEnc", "link", "linkEnc"} : row[f] = clients[c][f]
  BY <1>1 DEF Row
<1>4. /\ clients' = [clients EXCEPT ![c] = row]
      /\ UNCHANGED <<nodes, now, copies, asked>>
  BY <1>1 DEF ClientAccess, IInv, TypeOK
<1>5. assigned' \subseteq Client \X KnownNodes
  BY DEF IInv, TypeOK, ClientAccess
<1>. HIDE DEF row
<1>. QED BY <1>1, <1>2, <1>3, <1>4, <1>5, RowStep

\* Rotation gives a client four new secrets, older than which every copy is.
LEMMA RotateStep ==
    ASSUME IInv, NEW c \in Client, Rotate(c)
    PROVE  IInv'
<1>. DEFINE row == NewSecrets(clients[c])
<1>1. Known(c) /\ clients[c] \in Row
  BY Distinct DEF Rotate, Known, IInv, TypeOK
<1>2. clients[c].key + 1 \in Rotation
  BY <1>1 DEF Rotate, Row, Rotation
<1>3. /\ row \in Row /\ row.ip = clients[c].ip
      /\ row.key = clients[c].key + 1
      /\ row.keyEnc = row.key /\ row.link = row.key /\ row.linkEnc = row.key
  BY <1>1, <1>2 DEF NewSecrets, Row
<1>4. row # None
  BY <1>3, Distinct
<1>5. /\ clients' = [clients EXCEPT ![c] = row]
      /\ UNCHANGED <<nodes, assigned, now, copies, asked>>
  BY DEF Rotate
<1>. HIDE DEF row
<1>6. \A x \in Client : clients'[x] = IF x = c THEN row ELSE clients[x]
  BY <1>5 DEF IInv, TypeOK
<1>7. TypeOK'
  BY <1>3, <1>5 DEF IInv, TypeOK, KnownNodes
<1>8. AddressesUnique'
  BY <1>1, <1>3, <1>4, <1>6 DEF IInv, AddressesUnique, Known
<1>9. SecretsTogether'
  BY <1>3, <1>4, <1>6 DEF IInv, SecretsTogether, Known
<1>10. CopiesOld'
  <2>. SUFFICES ASSUME NEW d \in Copy PROVE CopyOld(d)'
    BY DEF CopiesOld
  <2>1. CASE copies[d] = None
    BY <1>5, <2>1 DEF IInv, CopiesOld, CopyOld
  <2>2. CASE copies[d] # None
    <3>1. /\ copies[d].client \in Client
          /\ copies[d].born \in Nat
      BY <2>2, Distinct DEF IInv, TypeOK, Held, Rotation
    <3>2. clients[c].key \in Nat
      BY <1>1 DEF Row, Rotation
    <3>. QED BY <1>3, <1>4, <1>5, <1>6, <2>2, <3>1, <3>2 DEF IInv, CopiesOld, CopyOld, Known
  <2>. QED BY <2>1, <2>2
<1>. QED BY <1>7, <1>8, <1>9, <1>10 DEF IInv

\* Steps of a copy leave the panel alone.
LEMMA PanelKept ==
    ASSUME IInv, UNCHANGED panel,
           copies' \in [Copy -> {None} \cup Held],
           asked' \in [Copy -> {None, Asked} \cup Answer],
           CopiesOld'
    PROVE  IInv'
<1>1. TypeOK'
  BY DEF IInv, TypeOK, panel, KnownNodes
<1>2. AddressesUnique' /\ SecretsTogether'
  BY DEF IInv, AddressesUnique, SecretsTogether, Known, panel
<1>. QED BY <1>1, <1>2 DEF IInv

LEMMA HandOutStep ==
    ASSUME IInv, NEW c \in Client, NEW d \in Copy, HandOut(c, d)
    PROVE  IInv'
<1>. DEFINE held == [client |-> c, born |-> clients[c].key, key |-> clients[c].keyEnc,
                     link |-> clients[c].linkEnc, refused |-> FALSE]
<1>1. Known(c) /\ clients[c] \in Row
  BY Distinct DEF HandOut, HasProfile, Known, IInv, TypeOK
<1>2. held \in Held /\ held # None
  BY <1>1, Distinct DEF Row, Held
<1>3. \A x \in Copy : copies'[x] = IF x = d THEN held ELSE copies[x]
  BY DEF HandOut, IInv, TypeOK
<1>4. copies[d] = None /\ UNCHANGED <<panel, asked>>
  BY DEF HandOut
<1>5. copies' \in [Copy -> {None} \cup Held]
  BY <1>2 DEF HandOut, IInv, TypeOK
<1>6. /\ held.client = c /\ held.key = held.born /\ held.link = held.born
      /\ held.born = clients[c].key /\ held.born \in Nat
  BY <1>1 DEF IInv, SecretsTogether, Row, Rotation
<1>. HIDE DEF held
<1>7. CopiesOld'
  BY <1>1, <1>2, <1>3, <1>4, <1>6 DEF IInv, CopiesOld, CopyOld, Known, panel
<1>8. asked' \in [Copy -> {None, Asked} \cup Answer]
  BY <1>4 DEF IInv, TypeOK
<1>. QED BY <1>4, <1>5, <1>7, <1>8, PanelKept

LEMMA AskStep ==
    ASSUME IInv, NEW d \in Copy, Ask(d) \/ Lose(d)
    PROVE  IInv'
<1>1. asked' \in [Copy -> {None, Asked} \cup Answer]
  BY DEF Ask, Lose, IInv, TypeOK
<1>2. UNCHANGED <<panel, copies>>
  BY DEF Ask, Lose
<1>3. \A x \in Copy : \/ asked'[x] = asked[x]
                      \/ asked'[x] = None
                      \/ asked'[x] = Asked /\ copies[x] # None
  BY DEF Ask, Lose, IInv, TypeOK
<1>4. CopiesOld'
  BY <1>2, <1>3 DEF IInv, CopiesOld, CopyOld, Known, panel
<1>5. copies' \in [Copy -> {None} \cup Held]
  BY <1>2 DEF IInv, TypeOK
<1>. QED BY <1>1, <1>2, <1>4, <1>5, PanelKept

\* The panel tells a copy its own key or refuses.
LEMMA AnswerStep ==
    ASSUME IInv, NEW d \in Copy, PanelAnswers(d)
    PROVE  IInv'
<1>. DEFINE c == copies[d].client
            answer == Subscription(c, copies[d].link)
<1>1. asked[d] # None /\ copies[d] # None
  BY Distinct DEF PanelAnswers, IInv, CopiesOld, CopyOld
<1>2. /\ Known(c) /\ c \in Client /\ clients[c] \in Row
      /\ copies[d].link = copies[d].born
  BY <1>1, Distinct DEF IInv, TypeOK, CopiesOld, CopyOld, Known, Held
<1>3. \/ answer \in Refusals
      \/ answer \in [status : {200}, key : Rotation] /\ answer.key = copies[d].born
  <2>1. CASE ~(Known(c) /\ clients[c].link = copies[d].link)
    BY <2>1 DEF Subscription, Refusals
  <2>2. CASE clients[c].link = copies[d].link /\ ~HasProfile(c)
    BY <1>2, <2>2 DEF Subscription, Refusals
  <2>3. CASE clients[c].link = copies[d].link /\ HasProfile(c)
    <3>1. clients[c].keyEnc = copies[d].born
      BY <1>2, <2>3 DEF IInv, SecretsTogether
    <3>2. clients[c].keyEnc \in Rotation
      BY <1>2 DEF Row
    <3>. QED BY <1>2, <2>3, <3>1, <3>2 DEF Subscription
  <2>. QED BY <1>2, <2>1, <2>2, <2>3
<1>4. /\ asked' = [asked EXCEPT ![d] = answer]
      /\ UNCHANGED <<panel, copies>>
  BY DEF PanelAnswers
<1>. HIDE DEF answer
<1>5. answer \in Answer
  BY <1>3 DEF Answer
<1>6. \A x \in Copy : asked'[x] = IF x = d THEN answer ELSE asked[x]
  BY <1>4 DEF IInv, TypeOK
<1>7. asked' \in [Copy -> {None, Asked} \cup Answer]
  BY <1>4, <1>5 DEF IInv, TypeOK
<1>8. CopiesOld'
  BY <1>1, <1>3, <1>4, <1>6 DEF IInv, CopiesOld, CopyOld, Known, panel
<1>9. copies' \in [Copy -> {None} \cup Held]
  BY <1>4 DEF IInv, TypeOK
<1>. QED BY <1>4, <1>7, <1>8, <1>9, PanelKept

LEMMA ReceiveStep ==
    ASSUME IInv, NEW d \in Copy, Receive(d)
    PROVE  IInv'
<1>. DEFINE held == Renewed(copies[d], asked[d])
<1>1. asked[d] \in Answer /\ copies[d] # None /\ copies[d] \in Held
  BY Distinct DEF Receive, IInv, TypeOK, CopiesOld, CopyOld
<1>2. /\ held \in Held
      /\ held.client = copies[d].client /\ held.born = copies[d].born
      /\ held.key = held.born /\ held.link = held.born
  <2>1. CASE asked[d] \in Refusals
    BY <1>1, <2>1 DEF Renewed, Held, IInv, CopiesOld, CopyOld
  <2>2. CASE asked[d] \notin Refusals
    <3>1. asked[d].key \in Rotation
      BY <1>1, <2>2 DEF Answer
    <3>2. asked[d].key = copies[d].born /\ copies[d].link = copies[d].born
      BY <1>1, <2>2, Distinct DEF Answer, IInv, CopiesOld, CopyOld
    <3>. QED BY <1>1, <2>2, <3>1, <3>2 DEF Renewed, Held
  <2>. QED BY <2>1, <2>2
<1>3. held # None
  BY <1>2, Distinct
<1>4. /\ copies' = [copies EXCEPT ![d] = held]
      /\ asked' = [asked EXCEPT ![d] = None]
      /\ UNCHANGED panel
  BY DEF Receive
<1>. HIDE DEF held
<1>5. /\ copies' \in [Copy -> {None} \cup Held]
      /\ asked' \in [Copy -> {None, Asked} \cup Answer]
  BY <1>2, <1>4 DEF IInv, TypeOK
<1>6. /\ \A x \in Copy : copies'[x] = IF x = d THEN held ELSE copies[x]
      /\ \A x \in Copy : asked'[x] = IF x = d THEN None ELSE asked[x]
  BY <1>4 DEF IInv, TypeOK
<1>7. CopiesOld'
  BY <1>1, <1>2, <1>3, <1>4, <1>6 DEF IInv, CopiesOld, CopyOld, Known, panel
<1>. QED BY <1>4, <1>5, <1>7, PanelKept

LEMMA ClockStep ==
    ASSUME IInv, Tick \/ UNCHANGED vars
    PROVE  IInv'
<1>1. /\ now' \in Time
      /\ UNCHANGED <<clients, nodes, assigned, copies, asked>>
  BY DEF Tick, vars, IInv, TypeOK, Time
<1>2. TypeOK'
  BY <1>1 DEF IInv, TypeOK, KnownNodes
<1>3. AddressesUnique' /\ SecretsTogether'
  BY <1>1 DEF IInv, AddressesUnique, SecretsTogether, Known
<1>4. CopiesOld'
  BY <1>1 DEF IInv, CopiesOld, CopyOld, Known
<1>. QED BY <1>2, <1>3, <1>4 DEF IInv

-----------------------------------------------------------------------------
(* Theorems.                                                               *)

\* The inductive invariant holds in every state the panel and its devices can
\* reach: addresses are unique, the secrets of a client belong together, and
\* no copy or answer knows secrets of a later rotation than its own.
THEOREM Invariance == Spec => []IInv
<1>1. IInv /\ [Next]_vars => IInv'
  <2>. SUFFICES ASSUME IInv, [Next]_vars PROVE IInv'
    OBVIOUS
  <2>1. ASSUME NEW n \in Node, NEW enabled \in BOOLEAN, NodeSave(n, enabled) PROVE IInv'
    BY <2>1, NodeStep
  <2>2. ASSUME NEW c \in Client, NEW ids \in SUBSET Node, NEW enabled \in BOOLEAN,
               NEW e \in Expiries,
               ClientCreate(c, ids, enabled, e) \/ ClientSave(c, ids, enabled, e)
        PROVE  IInv'
    BY <2>2, CreateStep, SaveStep
  <2>3. ASSUME NEW c \in Client, NEW enabled \in BOOLEAN, ClientAccess(c, enabled) PROVE IInv'
    BY <2>3, AccessStep
  <2>4. ASSUME NEW c \in Client, Rotate(c) PROVE IInv'
    BY <2>4, RotateStep
  <2>5. ASSUME NEW c \in Client, NEW d \in Copy, HandOut(c, d) PROVE IInv'
    BY <2>5, HandOutStep
  <2>6. ASSUME NEW d \in Copy, CopyStep(d) \/ Lose(d) PROVE IInv'
    BY <2>6, AskStep, AnswerStep, ReceiveStep DEF CopyStep
  <2>7. CASE Tick \/ UNCHANGED vars
    BY <2>7, ClockStep
  <2>. QED BY <2>1, <2>2, <2>3, <2>4, <2>5, <2>6, <2>7 DEF Next
<1>. QED BY <1>1, InitInv, PTL DEF Spec

\* No two clients ever have the same address, however many there are.
\* (client_save in control/app.py.)
THEOREM UniqueAddresses == Spec => []AddressesUnique
BY Invariance, PTL DEF IInv

\* The three places where the panel decides who is admitted agree at every
\* moment.  (active_users, profile and client_auth in control/store.py.)
THEOREM Verdict == Spec => []OneVerdict
<1>1. IInv => OneVerdict
  <2>. SUFFICES ASSUME IInv, NEW c \in Client
       PROVE  /\ {n \in Node : c \in ActiveUsers(n)} = (IF HasProfile(c) THEN Endpoints(c) ELSE {})
              /\ HasProfile(c) => /\ ClientAuth(c, clients[c].keyEnc)
                                  /\ Subscription(c, clients[c].linkEnc) \notin Refusals
              /\ \A n \in Node : c \in ActiveUsers(n) => Record(c).token = clients[c].keyEnc
    BY DEF OneVerdict
  <2>. DEFINE Admitted == /\ Known(c) /\ clients[c].enabled
                          /\ clients[c].expires = Never \/ clients[c].expires > now
  <2>1. Known(c) => /\ clients[c] \in Row /\ clients[c].expires \in Nat \cup {Never}
                    /\ clients[c].keyEnc = clients[c].key
                    /\ clients[c].linkEnc = clients[c].link
    BY Distinct DEF IInv, TypeOK, SecretsTogether, Known, Row
  <2>2. now \in Nat
    BY DEF IInv, TypeOK, Time
  <2>3. HasProfile(c) <=> Admitted /\ Endpoints(c) # {}
    BY <2>1, <2>2 DEF HasProfile
  <2>4. {n \in Node : c \in ActiveUsers(n)} = IF Admitted THEN Endpoints(c) ELSE {}
    BY DEF ActiveUsers, Endpoints
  <2>5. HasProfile(c) => ClientAuth(c, clients[c].keyEnc)
    BY <2>1, <2>3 DEF ClientAuth
  <2>6. HasProfile(c) => Subscription(c, clients[c].linkEnc) \notin Refusals
    BY <2>1, <2>3 DEF Subscription, Refusals
  <2>7. \A n \in Node : c \in ActiveUsers(n) => Record(c).token = clients[c].keyEnc
    BY <2>1 DEF ActiveUsers, Record
  <2>. QED BY <2>3, <2>4, <2>5, <2>6, <2>7
<1>. QED BY <1>1, Invariance, PTL

\* A profile that was rotated away opens nothing any more and never learns
\* the key that replaced its own.  (rotate, subscription and agent_config in
\* control/app.py.)
THEOREM RotationIsFinal == Spec => []RotationFinal
<1>1. IInv => RotationFinal
  <2>. SUFFICES ASSUME IInv, NEW d \in Copy, copies[d] # None
       PROVE  /\ copies[d].key = copies[d].born
              /\ clients[copies[d].client].key # copies[d].born =>
                   /\ ~ClientAuth(copies[d].client, copies[d].key)
                   /\ \A n \in Node : copies[d].client \in ActiveUsers(n) =>
                        Record(copies[d].client).token # copies[d].key
    BY DEF RotationFinal
  <2>1. copies[d].key = copies[d].born
    BY DEF IInv, CopiesOld, CopyOld
  <2>. QED BY <2>1 DEF ClientAuth, Record
<1>. QED BY <1>1, Invariance, PTL
=============================================================================
