---------------------------- MODULE BootstrapProofs ----------------------------
(***************************************************************************)
(* What holds of Bootstrap for any primaries, secondaries and number of    *)
(* faults: no service goes on before its node has the contract of the      *)
(* stage, and a primary that has stored a registrar's address installs no  *)
(* registrar again unless a node has lost the chain.  For one primary and  *)
(* any secondaries: all services use one instance, which the registrar     *)
(* names.                                                                  *)
(***************************************************************************)
EXTENDS Bootstrap, FiniteSetTheorems, TLAPS

-------------------------------------------------------------------------------
(* Code on a part of the chain.                                            *)

IsCode(tx, a) == tx.kind = "install" /\ tx.id = a
CodeIn(log, n, a) == \E j \in 1 .. n : IsCode(log[j], a)

LEMMA ContractIsCode ==
  ASSUME NEW s, NEW a
  PROVE  HasContract(s, a) <=> CodeIn(chain, view[s], a)
BY DEF HasContract, Seen, CodeIn, IsCode

\* As the chain and the part of it a node has grow, code stays.
LEMMA CodeStays ==
  ASSUME NEW S, NEW log \in Seq(S), NEW tx \in S, NEW n \in 0 .. Len(log), NEW a,
         CodeIn(log, n, a)
  PROVE  CodeIn(Append(log, tx), n, a)
<1>1. \A j \in 1 .. n : Append(log, tx)[j] = log[j]
  OBVIOUS
<1> QED
  BY <1>1 DEF CodeIn

LEMMA CodeSynced ==
  ASSUME NEW log, NEW n \in Nat, NEW m \in Nat, n <= m, NEW a, CodeIn(log, n, a)
  PROVE  CodeIn(log, m, a)
BY DEF CodeIn

-------------------------------------------------------------------------------
(* The inductive invariant.                                                *)

Stages == 1 .. 3
Steps ==
  {"starting", "find", "installing", "storing", "telling", "naming", "waiting", "ended"}

Transactions ==
  [kind : {"install"}, from : Services, name : {Names[i] : i \in Stages}, id : Nat]
  \cup [kind : {"setAddress"}, from : Services, registrar : Nat, name : {Names[i] : i \in Stages},
        address : Nat]

Types ==
  /\ installs \in Nat
  /\ chain \in Seq(Transactions)
  /\ pool \in [Services -> SUBSET Transactions]
  /\ account \in [Services -> Nat]
  /\ view \in [Services -> Nat]
  /\ \A s \in Services : view[s] <= Len(chain)
  /\ DOMAIN nonce = Services
  /\ stored \in [Services -> Nat]
  /\ stage \in [Services -> 1 .. 4]
  /\ step \in [Services -> Steps]
  /\ DOMAIN address = Services
  /\ \A s \in Services : DOMAIN address[s] = Stages
  /\ fileLost \in BOOLEAN /\ chainLost \in BOOLEAN

\* The transactions that were mined or may be.
Known == {chain[j] : j \in 1 .. Len(chain)} \cup UNION {pool[s] : s \in Services}

\* Contracts have the numbers of those that were sent.
Numbered == \A tx \in Known, a \in Nat : IsCode(tx, a) => a \in 1 .. installs

IsRegistrar(a) == \E j \in 1 .. Len(chain) : IsCode(chain[j], a) /\ chain[j].name = Names[1]

\* A service that waits for the receipt of an installation waits for that of
\* the contract of its stage; after it the contract is there.
InstallsItsStage(s) ==
  LET a == address[s][stage[s]] IN
  /\ step[s] \in {"installing", "storing", "telling", "naming", "waiting"} => stage[s] \in Stages
  /\ step[s] = "installing" =>
       /\ a \in 1 .. installs
       /\ \A tx \in Known : IsCode(tx, a) => tx.name = Names[stage[s]]
  /\ step[s] = "storing" => stage[s] = 1 /\ IsRegistrar(a)
  /\ step[s] \in {"telling", "naming"} => stage[s] # 1
  /\ step[s] \in {"storing", "telling", "naming"} => CodeIn(chain, view[s], a)

\* The contracts of the stages that are over.
HasItsContracts(s) ==
  \A i \in Stages : i < stage[s] => CodeIn(chain, view[s], address[s][i])

\* What is stored is a registrar, of which the node has the code unless a
\* node has lost its chain, and then none is being installed.
StoredIsRegistrar(s) ==
  stored[s] # Zero =>
    /\ IsRegistrar(stored[s])
    /\ ~chainLost => CodeIn(chain, view[s], stored[s]) /\ ~(stage[s] = 1 /\ step[s] = "installing")

Own(s) == InstallsItsStage(s) /\ HasItsContracts(s) /\ StoredIsRegistrar(s)

IInv == Types /\ Numbered /\ \A s \in Services : Own(s)

-------------------------------------------------------------------------------
LEMMA FourStages == Serving = 4
<1>1. Names = <<"registrar", "bic-registrar", "payment-service">>
  BY DEF Names
<1> QED
  BY <1>1 DEF Serving

LEMMA InitInvariant == Init => IInv
<1> SUFFICES ASSUME Init PROVE IInv
  OBVIOUS
<1>1. Types
  <2>1. DOMAIN NoAddresses = Stages
    BY DEF NoAddresses, Stages
  <2>2. address \in [Services -> {NoAddresses}] /\ step \in [Services -> {"starting"}]
    BY DEF Init
  <2>3. /\ chain \in Seq(Transactions) /\ Len(chain) = 0
        /\ pool \in [Services -> SUBSET Transactions]
    BY DEF Init
  <2>4. /\ step \in [Services -> Steps] /\ DOMAIN address = Services
        /\ \A s \in Services : DOMAIN address[s] = Stages
    BY <2>1, <2>2 DEF Steps
  <2>5. /\ account \in [Services -> Nat] /\ view \in [Services -> Nat]
        /\ \A s \in Services : view[s] <= Len(chain)
        /\ DOMAIN nonce = Services /\ stored \in [Services -> Nat]
        /\ stage \in [Services -> 1 .. 4]
    BY <2>3 DEF Init, Zero
  <2> QED
    BY <2>3, <2>4, <2>5 DEF Init, Types
<1>2. Known = {}
  BY DEF Init, Known
<1>3. ASSUME NEW s \in Services PROVE Own(s)
  <2>1. step[s] = "starting" /\ stage[s] = 1 /\ stored[s] = Zero
    BY DEF Init
  <2> QED
    BY <2>1 DEF Own, InstallsItsStage, HasItsContracts, StoredIsRegistrar, Stages
<1> QED
  BY <1>1, <1>2, <1>3 DEF IInv, Numbered

\* A contract a node has was sent.
LEMMA CodeIsSent ==
  ASSUME IInv, NEW s \in Services, NEW a, CodeIn(chain, view[s], a)
  PROVE  /\ a \in Nat /\ a \in 1 .. installs /\ a # Zero
         /\ \E j \in 1 .. Len(chain) : IsCode(chain[j], a)
<1>1. PICK j \in 1 .. view[s] : IsCode(chain[j], a)
  BY DEF CodeIn
<1>2. j \in 1 .. Len(chain) /\ chain[j] \in Transactions
  BY <1>1 DEF IInv, Types
<1>3. a \in Nat
  BY <1>1, <1>2 DEF Transactions, IsCode
<1>4. a \in 1 .. installs
  BY <1>1, <1>2, <1>3 DEF IInv, Numbered, Known
<1> QED
  BY <1>1, <1>2, <1>3, <1>4 DEF Zero

\* What a service is about is kept by the steps of others, and by what adds to
\* the chain and to what its node has of it.
LEMMA OwnStays ==
  ASSUME IInv, NEW t \in Services,
         stage'[t] = stage[t], step'[t] = step[t], address'[t] = address[t],
         stored'[t] = stored[t],
         installs <= installs', installs' \in Nat, chainLost \in BOOLEAN, chainLost => chainLost',
         \A a : CodeIn(chain, view[t], a) => CodeIn(chain, view[t], a)',
         \A a : IsRegistrar(a) => IsRegistrar(a)',
         \A tx \in Known' : tx \in Known \/ \A a \in 1 .. installs : ~IsCode(tx, a)
  PROVE  Own(t)'
<1>1. Own(t) /\ installs \in Nat
  BY DEF IInv, Types
<1>2. InstallsItsStage(t)'
  BY <1>1 DEF Own, InstallsItsStage, IsCode
<1>3. HasItsContracts(t)'
  BY <1>1 DEF Own, HasItsContracts
<1>4. StoredIsRegistrar(t)'
  BY <1>1 DEF Own, StoredIsRegistrar
<1> QED
  BY <1>2, <1>3, <1>4 DEF Own

\* The same when neither the chain nor the view change.
LEMMA OthersStay ==
  ASSUME IInv, NEW s \in Services, UNCHANGED <<chain, view>>,
         \A t \in Services : t # s =>
           /\ stage'[t] = stage[t] /\ step'[t] = step[t] /\ address'[t] = address[t]
           /\ stored'[t] = stored[t],
         installs <= installs', installs' \in Nat, chainLost' = chainLost,
         \A tx \in Known' : tx \in Known \/ \A a \in 1 .. installs : ~IsCode(tx, a),
         Own(s)'
  PROVE  \A t \in Services : Own(t)'
<1> SUFFICES ASSUME NEW t \in Services PROVE Own(t)'
  OBVIOUS
<1>1. /\ \A a : CodeIn(chain, view[t], a) => CodeIn(chain, view[t], a)'
      /\ \A a : IsRegistrar(a) => IsRegistrar(a)'
  BY DEF CodeIn, IsRegistrar, IsCode
<1>2. CASE t = s
  BY <1>2
<1>3. CASE t # s
  BY <1>1, <1>3, OwnStays DEF IInv, Types
<1> QED
  BY <1>2, <1>3

-------------------------------------------------------------------------------
(* The end of a stage: the contract is there and the next stage begins.    *)

LEMMA StageEnds ==
  ASSUME IInv, NEW s \in Services, NEW a,
         stage[s] \in Stages, CodeIn(chain, view[s], a), NextStage(s, a),
         \/ stored' = stored
         \/ stored' = [stored EXCEPT ![s] = a] /\ IsRegistrar(a),
         fileLost' \in BOOLEAN,
         UNCHANGED <<net, view, nonce, chainLost>>
  PROVE  IInv'
<1>1. a \in Nat
  BY CodeIsSent
<1>2. /\ stage' = [stage EXCEPT ![s] = @ + 1]
      /\ step' = [step EXCEPT ![s] = "find"]
      /\ address' = [address EXCEPT ![s][stage[s]] = a]
  BY DEF NextStage, Go
<1> DEFINE row == [address[s] EXCEPT ![stage[s]] = a]
<1>3. /\ address' = [address EXCEPT ![s] = row]
      /\ DOMAIN row = Stages
      /\ \A i \in Stages : row[i] = IF i = stage[s] THEN a ELSE address[s][i]
  BY <1>2 DEF IInv, Types
<1> HIDE DEF row
<1>4. \A t \in Services : address'[t] = IF t = s THEN row ELSE address[t]
  BY <1>3 DEF IInv, Types
<1>5. Types'
  <2>1. DOMAIN address' = Services /\ \A t \in Services : DOMAIN address'[t] = Stages
    BY <1>3, <1>4 DEF IInv, Types
  <2>2. stage' \in [Services -> 1 .. 4] /\ step' \in [Services -> Steps]
    BY <1>2 DEF IInv, Types, Stages, Steps
  <2>3. stored' \in [Services -> Nat]
    BY <1>1 DEF IInv, Types
  <2> QED
    BY <2>1, <2>2, <2>3 DEF IInv, Types, net
<1>6. Known' = Known
  BY DEF Known, net
<1>7. Numbered'
  BY <1>6 DEF IInv, Numbered, net
<1>8. Own(s)'
  <2>1. InstallsItsStage(s)'
    BY <1>2 DEF IInv, Types, InstallsItsStage
  <2>2. HasItsContracts(s)'
    <3> SUFFICES ASSUME NEW i \in Stages, i < stage'[s]
                 PROVE  CodeIn(chain, view[s], address'[s][i])
      BY DEF HasItsContracts, net
    <3>1. i <= stage[s]
      BY <1>2 DEF IInv, Types, Stages
    <3>2. address'[s][i] = IF i = stage[s] THEN a ELSE address[s][i]
      BY <1>3, <1>4
    <3>3. CASE i = stage[s]
      BY <3>2, <3>3
    <3>4. CASE i # stage[s]
      <4>1. i < stage[s] /\ HasItsContracts(s)
        BY <3>1, <3>4 DEF IInv, Own, Types, Stages
      <4> QED
        BY <3>2, <3>4, <4>1 DEF HasItsContracts
    <3> QED
      BY <3>3, <3>4
  <2>3. StoredIsRegistrar(s)'
    <3>1. /\ \A b : IsRegistrar(b) => IsRegistrar(b)'
          /\ step'[s] = "find" /\ UNCHANGED <<chain, view, chainLost>>
      BY <1>2 DEF IsRegistrar, IsCode, net, IInv, Types
    <3>2. CASE stored' = stored
      BY <3>1, <3>2 DEF IInv, Own, StoredIsRegistrar
    <3>3. CASE stored' = [stored EXCEPT ![s] = a] /\ IsRegistrar(a)
      <4>1. stored'[s] = a
        BY <3>3 DEF IInv, Types
      <4> QED
        BY <3>1, <3>3, <4>1 DEF StoredIsRegistrar
    <3> QED
      BY <3>2, <3>3
  <2> QED
    BY <2>1, <2>2, <2>3 DEF Own
<1>9. \A t \in Services : t # s =>
        /\ stage'[t] = stage[t] /\ step'[t] = step[t] /\ address'[t] = address[t]
        /\ stored'[t] = stored[t]
  BY <1>2, <1>4 DEF IInv, Types
<1>10. \A t \in Services : Own(t)'
  <2>1. installs \in Nat
    BY DEF IInv, Types
  <2> QED
    BY <1>6, <1>8, <1>9, <2>1, OthersStay DEF net
<1> QED
  BY <1>5, <1>7, <1>10 DEF IInv

-------------------------------------------------------------------------------
(* The steps within a stage.                                               *)

\* One service moves on within its stage; what it sends is new.
LEMMA OneMoves ==
  ASSUME IInv, NEW s \in Services, NEW x \in Steps, NEW row,
         DOMAIN row = Stages, DOMAIN address' = Services,
         \A t \in Services : address'[t] = IF t = s THEN row ELSE address[t],
         stage' = stage, step' = [step EXCEPT ![s] = x],
         stored' \in [Services -> Nat],
         \A t \in Services : t # s => stored'[t] = stored[t],
         UNCHANGED <<chain, view, account, fileLost, chainLost>>, DOMAIN nonce' = Services,
         pool' \in [Services -> SUBSET Transactions],
         installs' \in Nat, installs <= installs',
         \A tx \in Known' : tx \in Known \/ \A a \in 1 .. installs : ~IsCode(tx, a),
         Numbered', Own(s)'
  PROVE  IInv'
<1>1. Types'
  <2>1. step' \in [Services -> Steps]
    BY DEF IInv, Types
  <2>2. \A t \in Services : DOMAIN address'[t] = Stages
    BY DEF IInv, Types
  <2> QED
    BY <2>1, <2>2 DEF IInv, Types
<1>2. \A t \in Services : t # s =>
        /\ stage'[t] = stage[t] /\ step'[t] = step[t] /\ address'[t] = address[t]
        /\ stored'[t] = stored[t]
  BY DEF IInv, Types
<1>3. \A t \in Services : Own(t)'
  BY <1>2, OthersStay
<1> QED
  BY <1>1, <1>3 DEF IInv

\* The same when the service sends nothing and stores nothing.
LEMMA OneStepsOn ==
  ASSUME IInv, NEW s \in Services, NEW x \in Steps,
         x \in {"find", "telling", "naming", "ended"},
         x \in {"telling", "naming"} => step[s] \in {"telling", "installing"},
         x \in {"telling", "naming"} => stage[s] # 1,
         x \in {"telling", "naming"} => CodeIn(chain, view[s], address[s][stage[s]]),
         UNCHANGED <<chain, installs, account, view, stored, stage, address, fileLost, chainLost>>,
         step' = [step EXCEPT ![s] = x], DOMAIN nonce' = Services,
         pool' \in [Services -> SUBSET Transactions],
         \A tx \in Known' : tx \in Known \/ \A a \in Nat : ~IsCode(tx, a)
  PROVE  IInv'
<1>1. /\ installs \in Nat /\ DOMAIN address[s] = Stages
      /\ \A t \in Services : address'[t] = IF t = s THEN address[s] ELSE address[t]
  BY DEF IInv, Types
<1>2. step'[s] = x
  BY DEF IInv, Types
<1>3. Numbered'
  BY <1>1 DEF IInv, Numbered
<1>4. Own(s)'
  <2>1. InstallsItsStage(s)'
    BY <1>2 DEF IInv, Own, InstallsItsStage
  <2>2. HasItsContracts(s)'
    BY DEF IInv, Own, HasItsContracts
  <2>3. StoredIsRegistrar(s)'
    BY <1>2 DEF IInv, Own, StoredIsRegistrar, IsRegistrar, IsCode
  <2> QED
    BY <2>1, <2>2, <2>3 DEF Own
<1>5. \A tx \in Known' : tx \in Known \/ \A a \in 1 .. installs : ~IsCode(tx, a)
  BY <1>1
<1>6. /\ stored' \in [Services -> Nat] /\ DOMAIN address' = Services
      /\ \A t \in Services : t # s => stored'[t] = stored[t]
      /\ installs' \in Nat /\ installs <= installs'
  BY DEF IInv, Types
<1> QED
  BY <1>1, <1>3, <1>4, <1>5, <1>6, OneMoves

\* Without a transaction sent.
LEMMA SameKnown ==
  ASSUME UNCHANGED net
  PROVE  Known' = Known
BY DEF net, Known

\* What a node takes is typed and known.
LEMMA AdmitKnown ==
  ASSUME IInv, NEW s \in Services, NEW n, NEW tx \in Transactions, Admit(s, n, tx)
  PROVE  /\ pool' \in [Services -> SUBSET Transactions]
         /\ UNCHANGED <<chain, account>>
         /\ Known' \subseteq Known \cup {tx}
<1>1. UNCHANGED <<chain, account>> /\ pool \in [Services -> SUBSET Transactions]
  BY DEF Admit, IInv, Types
<1>2. CASE pool' = [pool EXCEPT ![s] = {tx}]
  <2>1. pool' \in [Services -> SUBSET Transactions]
    BY <1>1, <1>2
  <2>2. \A t \in Services : pool'[t] \subseteq pool[t] \cup {tx}
    BY <1>1, <1>2
  <2> QED
    BY <1>1, <2>1, <2>2 DEF Known
<1>3. CASE UNCHANGED pool
  BY <1>1, <1>3 DEF Known
<1> QED
  BY <1>2, <1>3 DEF Admit

\* The registrar's address is about to be stored.
LEMMA StoreInvariant ==
  ASSUME IInv, NEW s \in Services, NEW a,
         stage[s] = 1, CodeIn(chain, view[s], a), IsRegistrar(a), Store(s, a),
         UNCHANGED <<net, view, nonce, chainLost>>
  PROVE  IInv'
<1>1. CASE /\ stored' = [stored EXCEPT ![s] = Zero]
           /\ Go(s, "storing")
           /\ address' = [address EXCEPT ![s][1] = a]
           /\ UNCHANGED <<stage, faults, fileLost>>
  <2> DEFINE row == [address[s] EXCEPT ![1] = a]
  <2>1. /\ DOMAIN row = Stages /\ row[1] = a
        /\ DOMAIN address' = Services
        /\ \A t \in Services : address'[t] = IF t = s THEN row ELSE address[t]
    BY <1>1 DEF IInv, Types, Stages
  <2> HIDE DEF row
  <2>2. /\ stored' \in [Services -> Nat] /\ stored'[s] = Zero
        /\ \A t \in Services : t # s => stored'[t] = stored[t]
    BY <1>1 DEF IInv, Types, Zero
  <2>3. step' = [step EXCEPT ![s] = "storing"] /\ step'[s] = "storing" /\ "storing" \in Steps
    BY <1>1 DEF Go, IInv, Types, Steps
  <2>4. Known' = Known /\ Numbered' /\ installs \in Nat
    BY SameKnown DEF IInv, Numbered, net, Types
  <2>5. Own(s)'
    <3>1. stage'[s] = 1 /\ address'[s][1] = a
      BY <1>1, <2>1
    <3>2. InstallsItsStage(s)'
      BY <2>3, <3>1 DEF InstallsItsStage, Stages, IsRegistrar, IsCode, net
    <3>3. HasItsContracts(s)'
      BY <3>1 DEF HasItsContracts, Stages
    <3>4. StoredIsRegistrar(s)'
      BY <2>2 DEF StoredIsRegistrar
    <3> QED
      BY <3>2, <3>3, <3>4 DEF Own
  <2>6. /\ UNCHANGED <<chain, account>> /\ DOMAIN nonce' = Services
        /\ pool' \in [Services -> SUBSET Transactions]
        /\ installs' \in Nat /\ installs <= installs'
        /\ \A tx \in Known' : tx \in Known \/ \A b \in 1 .. installs : ~IsCode(tx, b)
    BY <2>4 DEF IInv, Types, net
  <2> QED
    BY <1>1, <2>1, <2>2, <2>3, <2>4, <2>5, <2>6, OneMoves
<1>2. CASE MayFail /\ fileLost' = TRUE /\ NextStage(s, a) /\ UNCHANGED stored
  BY <1>2, StageEnds DEF Stages
<1> QED
  BY <1>1, <1>2 DEF Store

-------------------------------------------------------------------------------
(* Every action preserves the invariant.                                   *)

LEMMA StartInvariant ==
  ASSUME IInv, NEW s \in Services, Start(s)
  PROVE  IInv'
<1>1. /\ step' = [step EXCEPT ![s] = "find"] /\ "find" \in Steps
      /\ UNCHANGED <<net, view, stored, stage, address, fileLost, chainLost>>
      /\ DOMAIN nonce' = Services /\ pool' \in [Services -> SUBSET Transactions]
  BY DEF Start, Go, Steps, IInv, Types, net
<1> QED
  BY <1>1, SameKnown, OneStepsOn DEF net

LEMMA FoundInvariant ==
  ASSUME IInv, NEW s \in Services, Found(s)
  PROVE  IInv'
<1> DEFINE a == Candidate(s)
<1>1. /\ stage[s] \in Stages /\ CodeIn(chain, view[s], a)
      /\ UNCHANGED <<net, view, nonce, chainLost>>
  BY FourStages, ContractIsCode DEF Found, IInv, Types, Stages
<1>2. CASE stage[s] = 1
  <2>1. a = stored[s] /\ Store(s, a)
    BY <1>2 DEF Found, Candidate
  <2>2. a # Zero
    BY <1>1, CodeIsSent
  <2>3. IsRegistrar(a)
    BY <2>1, <2>2 DEF IInv, Own, StoredIsRegistrar
  <2> HIDE DEF a
  <2> QED
    BY <1>1, <1>2, <2>1, <2>3, StoreInvariant
<1>3. CASE stage[s] # 1
  <2>1. NextStage(s, a) /\ UNCHANGED <<stored, fileLost>>
    BY <1>3 DEF Found
  <2> HIDE DEF a
  <2> QED
    BY <1>1, <2>1, StageEnds DEF IInv, Types
<1> QED
  BY <1>2, <1>3

LEMMA InstallContractInvariant ==
  ASSUME IInv, NEW s \in Services, InstallContract(s)
  PROVE  IInv'
<1> DEFINE tx == Install(s, Names[stage[s]], installs + 1)
           row == [address[s] EXCEPT ![stage[s]] = installs + 1]
<1>1. /\ stage[s] \in Stages
      /\ step' = [step EXCEPT ![s] = "installing"]
      /\ address' = [address EXCEPT ![s] = row]
      /\ Admit(s, nonce[s], tx)
      /\ installs' = installs + 1
      /\ nonce' = [nonce EXCEPT ![s] = @ + 1]
      /\ UNCHANGED <<view, stored, stage, history>>
  BY FourStages DEF InstallContract, NeedsContract, Go, IInv, Types, Stages
<1>2. /\ tx \in Transactions /\ \A b \in Nat : IsCode(tx, b) => b = installs + 1
      /\ tx.name = Names[stage[s]] /\ installs \in Nat
  BY <1>1 DEF Transactions, Install, IInv, Types, IsCode
<1>3. /\ DOMAIN row = Stages
      /\ \A i \in Stages : row[i] = IF i = stage[s] THEN installs + 1 ELSE address[s][i]
  BY DEF IInv, Types
<1> HIDE DEF tx, row
<1>4. /\ pool' \in [Services -> SUBSET Transactions]
      /\ UNCHANGED <<chain, account>>
      /\ Known' \subseteq Known \cup {tx}
  BY <1>1, <1>2, AdmitKnown
<1>5. Numbered'
  BY <1>1, <1>2, <1>4 DEF IInv, Numbered
<1>6. \A x \in Known : ~IsCode(x, installs + 1)
  BY <1>2 DEF IInv, Numbered
<1>7. /\ step'[s] = "installing" /\ stage'[s] = stage[s] /\ stored'[s] = stored[s]
      /\ address'[s] = row /\ DOMAIN address' = Services
      /\ \A t \in Services : address'[t] = IF t = s THEN row ELSE address[t]
  BY <1>1 DEF IInv, Types
<1>8. InstallsItsStage(s)'
  <2>1. address'[s][stage'[s]] = installs + 1
    BY <1>1, <1>3, <1>7
  <2>2. \A x \in Known' : IsCode(x, installs + 1) => x.name = Names[stage[s]]
    BY <1>2, <1>4, <1>6
  <2>3. \A x \in Known' : IsCode(x, address'[s][stage'[s]]) => x.name = Names[stage'[s]]
    BY <1>7, <2>1, <2>2
  <2>4. /\ address'[s][stage'[s]] \in 1 .. installs' /\ stage'[s] \in Stages
    BY <1>1, <1>2, <1>7, <2>1
  <2> QED
    BY <1>7, <2>3, <2>4 DEF InstallsItsStage
<1>9. HasItsContracts(s)'
  <2> SUFFICES ASSUME NEW i \in Stages, i < stage[s] PROVE CodeIn(chain, view[s], address'[s][i])
    BY <1>1, <1>4, <1>7 DEF HasItsContracts
  <2>1. i # stage[s] /\ address'[s][i] = address[s][i]
    BY <1>3, <1>7 DEF IInv, Types, Stages
  <2> QED
    BY <2>1 DEF IInv, Own, HasItsContracts
<1>10. StoredIsRegistrar(s)'
  <2>1. stage[s] = 1 /\ ~chainLost => stored[s] = Zero
    <3> SUFFICES ASSUME stage[s] = 1, ~chainLost, stored[s] # Zero PROVE FALSE
      OBVIOUS
    <3>1. CodeIn(chain, view[s], stored[s])
      BY DEF IInv, Own, StoredIsRegistrar
    <3> QED
      BY <3>1, ContractIsCode DEF InstallContract, NeedsContract, Candidate
  <2> QED
    BY <1>1, <1>4, <1>7, <2>1 DEF IInv, Own, StoredIsRegistrar, history, IsRegistrar, CodeIn, IsCode
<1>11. Own(s)'
  BY <1>8, <1>9, <1>10 DEF Own
<1>12. \A x \in Known' : x \in Known \/ \A b \in 1 .. installs : ~IsCode(x, b)
  BY <1>2, <1>4
<1>13. /\ "installing" \in Steps /\ DOMAIN nonce' = Services /\ installs' \in Nat
       /\ installs <= installs' /\ stored' \in [Services -> Nat]
  BY <1>1, <1>2 DEF Steps, IInv, Types
<1> QED
  BY <1>1, <1>3, <1>4, <1>5, <1>7, <1>11, <1>12, <1>13, OneMoves DEF history

LEMMA InstalledInvariant ==
  ASSUME IInv, NEW s \in Services, Installed(s)
  PROVE  IInv'
<1> DEFINE a == address[s][stage[s]]
<1>1. /\ stage[s] \in Stages /\ step[s] = "installing" /\ CodeIn(chain, view[s], a)
      /\ UNCHANGED <<net, view, chainLost>>
  BY ContractIsCode DEF Installed, IInv, Own, InstallsItsStage
<1>2. CASE stage[s] = 1
  <2>1. Store(s, a) /\ UNCHANGED nonce
    BY <1>2 DEF Installed
  <2>2. PICK j \in 1 .. Len(chain) : IsCode(chain[j], a)
    BY <1>1, CodeIsSent
  <2>3. chain[j].name = Names[1]
    BY <1>1, <1>2, <2>2 DEF IInv, Own, InstallsItsStage, Known
  <2>4. IsRegistrar(a)
    BY <2>2, <2>3 DEF IsRegistrar
  <2> HIDE DEF a
  <2> QED
    BY <1>1, <1>2, <2>1, <2>4, StoreInvariant
<1>3. CASE stage[s] # 1
  <2>1. /\ step' = [step EXCEPT ![s] = "telling"] /\ "telling" \in Steps
        /\ UNCHANGED <<stored, stage, address, fileLost>>
        /\ DOMAIN nonce' = Services /\ pool' \in [Services -> SUBSET Transactions]
    BY <1>3 DEF Installed, Go, Steps, IInv, Types, net
  <2> QED
    BY <1>1, <1>3, <2>1, SameKnown, OneStepsOn DEF net
<1> QED
  BY <1>2, <1>3

LEMMA RefusedInvariant ==
  ASSUME IInv, NEW s \in Services, InstallRefused(s)
  PROVE  IInv'
<1>1. /\ step' = [step EXCEPT ![s] = "ended"] /\ "ended" \in Steps
      /\ UNCHANGED <<net, view, stored, stage, address, fileLost, chainLost>>
      /\ DOMAIN nonce' = Services /\ pool' \in [Services -> SUBSET Transactions]
  BY DEF InstallRefused, Go, Steps, IInv, Types, net, history
<1> QED
  BY <1>1, SameKnown, OneStepsOn DEF net

LEMMA StoredInvariant ==
  ASSUME IInv, NEW s \in Services, Stored(s)
  PROVE  IInv'
<1> DEFINE a == address[s][1]
<1>1. /\ stage[s] = 1 /\ stage[s] \in Stages /\ CodeIn(chain, view[s], a) /\ IsRegistrar(a)
      /\ NextStage(s, a)
      /\ UNCHANGED <<net, view, nonce, chainLost>>
  BY DEF Stored, IInv, Own, InstallsItsStage
<1>2. /\ \/ stored' = stored
         \/ stored' = [stored EXCEPT ![s] = a] /\ IsRegistrar(a)
      /\ fileLost' \in BOOLEAN
  BY <1>1 DEF Stored, IInv, Types
<1> HIDE DEF a
<1> QED
  BY <1>1, <1>2, StageEnds

LEMMA TellInvariant ==
  ASSUME IInv, NEW s \in Services, Tell(s)
  PROVE  IInv'
<1> DEFINE a == address[s][stage[s]]
           tx == SetAddress(s, address[s][1], Names[stage[s]], a)
<1>1. /\ step[s] = "telling" /\ stage[s] \in Stages /\ stage[s] # 1
      /\ CodeIn(chain, view[s], a)
      /\ Admit(s, nonce[s] - 1, tx)
      /\ step' = [step EXCEPT ![s] = "naming"] /\ "naming" \in Steps
      /\ UNCHANGED <<installs, view, nonce, stored, stage, address, fileLost, chainLost>>
  BY DEF Tell, Go, Steps, IInv, Own, InstallsItsStage, history
<1>2. a \in Nat /\ address[s][1] \in Nat
  <2>1. CodeIn(chain, view[s], address[s][1])
    BY <1>1 DEF IInv, Own, HasItsContracts, Stages
  <2> QED
    BY <1>1, <2>1, CodeIsSent
<1>3. tx \in Transactions /\ \A b \in Nat : ~IsCode(tx, b)
  BY <1>1, <1>2 DEF SetAddress, Transactions, IsCode
<1> HIDE DEF tx
<1>4. /\ pool' \in [Services -> SUBSET Transactions]
      /\ UNCHANGED <<chain, account>>
      /\ Known' \subseteq Known \cup {tx}
  BY <1>1, <1>3, AdmitKnown
<1>5. /\ \A x \in Known' : x \in Known \/ \A b \in Nat : ~IsCode(x, b)
      /\ DOMAIN nonce' = Services
  BY <1>1, <1>3, <1>4 DEF IInv, Types
<1> QED
  BY <1>1, <1>4, <1>5, OneStepsOn

LEMMA NamedInvariant ==
  ASSUME IInv, NEW s \in Services, Named(s)
  PROVE  IInv'
<1>1. /\ stage[s] \in Stages /\ CodeIn(chain, view[s], address[s][stage[s]])
      /\ NextStage(s, address[s][stage[s]])
      /\ UNCHANGED <<net, view, nonce, stored, fileLost, chainLost>>
  BY DEF Named, IInv, Own, InstallsItsStage, history
<1>2. fileLost' \in BOOLEAN
  BY <1>1 DEF IInv, Types
<1> QED
  BY <1>1, <1>2, StageEnds

LEMMA AttachedInvariant ==
  ASSUME IInv, NEW s \in Services, Attached(s)
  PROVE  IInv'
<1>1. /\ stage[s] \in Stages /\ CodeIn(chain, view[s], address[s][stage[s]])
      /\ NextStage(s, address[s][stage[s]])
      /\ UNCHANGED <<net, view, nonce, stored, fileLost, chainLost>>
  BY ContractIsCode DEF Attached, IInv, Own, InstallsItsStage, history
<1>2. fileLost' \in BOOLEAN
  BY <1>1 DEF IInv, Types
<1> QED
  BY <1>1, <1>2, StageEnds

\* A service that has an address waits for the contract.
LEMMA WaitingInvariant ==
  ASSUME IInv, NEW s \in Services, NEW a,
         stage[s] \in Stages,
         address' = [address EXCEPT ![s][stage[s]] = a], step' = [step EXCEPT ![s] = "waiting"],
         UNCHANGED <<net, view, nonce, stored, stage, history>>
  PROVE  IInv'
<1> DEFINE row == [address[s] EXCEPT ![stage[s]] = a]
<1>1. /\ DOMAIN row = Stages /\ DOMAIN address' = Services
      /\ \A i \in Stages : row[i] = IF i = stage[s] THEN a ELSE address[s][i]
      /\ \A t \in Services : address'[t] = IF t = s THEN row ELSE address[t]
  BY DEF IInv, Types
<1> HIDE DEF row
<1>2. /\ step'[s] = "waiting" /\ "waiting" \in Steps /\ stage'[s] = stage[s]
      /\ chain' = chain /\ view' = view
  BY DEF IInv, Types, Steps, net
<1>3. Known' = Known /\ Numbered'
  BY SameKnown DEF net, IInv, Numbered
<1>4. Own(s)'
  <2>1. InstallsItsStage(s)'
    BY <1>2 DEF InstallsItsStage
  <2>2. HasItsContracts(s)'
    <3> SUFFICES ASSUME NEW i \in Stages, i < stage[s]
                 PROVE  CodeIn(chain, view[s], address'[s][i])
      BY <1>2 DEF HasItsContracts
    <3>1. i # stage[s] /\ address'[s][i] = address[s][i]
      BY <1>1 DEF IInv, Types, Stages
    <3> QED
      BY <3>1 DEF IInv, Own, HasItsContracts
  <2>3. StoredIsRegistrar(s)'
    BY <1>2 DEF IInv, Own, StoredIsRegistrar, IsRegistrar, IsCode, net, history
  <2> QED
    BY <2>1, <2>2, <2>3 DEF Own
<1>5. /\ UNCHANGED <<chain, account, fileLost, chainLost>> /\ DOMAIN nonce' = Services
      /\ pool' \in [Services -> SUBSET Transactions]
      /\ stored' \in [Services -> Nat] /\ \A t \in Services : t # s => stored'[t] = stored[t]
      /\ installs' \in Nat /\ installs <= installs'
      /\ \A tx \in Known' : tx \in Known \/ \A b \in 1 .. installs : ~IsCode(tx, b)
  BY <1>3 DEF IInv, Types, net, history
<1> QED
  BY <1>1, <1>2, <1>3, <1>4, <1>5, OneMoves

LEMMA ConfiguredInvariant ==
  ASSUME IInv, NEW s \in Services, Configured(s)
  PROVE  IInv'
<1>1. PICK p \in Primaries : address' = [address EXCEPT ![s][1] = address[p][1]]
  BY DEF Configured
<1>2. /\ stage[s] = 1 /\ 1 \in Stages
      /\ step' = [step EXCEPT ![s] = "waiting"]
      /\ UNCHANGED <<net, view, nonce, stored, stage, history>>
  BY DEF Configured, Stages, Go
<1>3. address' = [address EXCEPT ![s][stage[s]] = address[p][1]]
  BY <1>1, <1>2
<1> QED
  BY <1>2, <1>3, WaitingInvariant

LEMMA ResolvedInvariant ==
  ASSUME IInv, NEW s \in Services, Resolved(s)
  PROVE  IInv'
<1>1. stage[s] \in Stages
  BY FourStages DEF Resolved, Stages
<1>2. /\ address' = [address EXCEPT ![s][stage[s]] = Candidate(s)]
      /\ step' = [step EXCEPT ![s] = "waiting"]
      /\ UNCHANGED <<net, view, nonce, stored, stage, history>>
  BY DEF Resolved, Go
<1> HIDE DEF Candidate
<1> QED
  BY <1>1, <1>2, WaitingInvariant

-------------------------------------------------------------------------------
(* The nodes.                                                              *)

LEMMA MineInvariant ==
  ASSUME IInv, NEW s \in Services, Mine(s)
  PROVE  IInv'
<1>1. PICK tx \in pool[s] : chain' = Append(chain, tx)
  BY DEF Mine
<1>2. /\ pool \in [Services -> SUBSET Transactions] /\ chain \in Seq(Transactions)
      /\ tx \in Transactions
      /\ pool' = [pool EXCEPT ![s] = {}]
      /\ UNCHANGED <<installs, account, view, nonce, stored, progress, history>>
  BY DEF Mine, IInv, Types
<1>3. /\ chain' \in Seq(Transactions) /\ Len(chain') = Len(chain) + 1
      /\ \A j \in 1 .. Len(chain) : chain'[j] = chain[j]
      /\ chain'[Len(chain) + 1] = tx
  BY <1>1, <1>2
<1>4. \A t \in Services : pool'[t] \subseteq pool[t]
  BY <1>2
<1>5. Known' \subseteq Known
  <2>1. \A j \in 1 .. Len(chain') : chain'[j] \in Known
    <3>1. tx \in Known
      BY DEF Known
    <3>2. \A j \in 1 .. Len(chain) : chain[j] \in Known
      BY DEF Known
    <3>3. \A j \in 1 .. Len(chain') : j = Len(chain) + 1 \/ j \in 1 .. Len(chain)
      BY <1>2, <1>3
    <3> QED
      BY <1>3, <3>1, <3>2, <3>3
  <2>2. \A t \in Services : \A x \in pool'[t] : x \in Known
    BY <1>4 DEF Known
  <2> QED
    BY <2>1, <2>2 DEF Known
<1>6. Types'
  BY <1>2, <1>3 DEF IInv, Types, progress, history
<1>7. Numbered'
  BY <1>2, <1>5 DEF IInv, Numbered
<1>8. ASSUME NEW t \in Services PROVE Own(t)'
  <2>1. \A a : CodeIn(chain, view[t], a) => CodeIn(chain, view[t], a)'
    <3> SUFFICES ASSUME NEW a, CodeIn(chain, view[t], a) PROVE CodeIn(chain', view'[t], a)
      OBVIOUS
    <3>1. view'[t] = view[t] /\ view[t] \in 0 .. Len(chain)
      BY <1>2 DEF IInv, Types
    <3> QED
      BY <1>1, <1>2, <3>1, CodeStays
  <2>2. \A a : IsRegistrar(a) => IsRegistrar(a)'
    <3>1. \A j \in 1 .. Len(chain) : j \in 1 .. Len(chain') /\ chain'[j] = chain[j]
      BY <1>2, <1>3
    <3> QED
      BY <3>1 DEF IsRegistrar, IsCode
  <2>3. /\ stage'[t] = stage[t] /\ step'[t] = step[t] /\ address'[t] = address[t]
        /\ stored'[t] = stored[t] /\ installs <= installs' /\ installs' \in Nat
        /\ chainLost \in BOOLEAN /\ (chainLost => chainLost')
        /\ \A x \in Known' : x \in Known \/ \A a \in 1 .. installs : ~IsCode(x, a)
    BY <1>2, <1>5 DEF progress, history, IInv, Types
  <2> QED
    BY <2>1, <2>2, <2>3, OwnStays
<1> QED
  BY <1>6, <1>7, <1>8 DEF IInv

LEMMA SyncInvariant ==
  ASSUME IInv, NEW s \in Services, Sync(s)
  PROVE  IInv'
<1>1. PICK n \in view[s] + 1 .. Len(chain) : view' = [view EXCEPT ![s] = n]
  BY DEF Sync
<1>2. UNCHANGED <<net, nonce, stored, progress, history>>
  BY DEF Sync
<1>3. /\ view' \in [Services -> Nat]
      /\ \A t \in Services : view[t] <= view'[t] /\ view'[t] <= Len(chain)
  BY <1>1 DEF IInv, Types
<1>4. Types'
  BY <1>2, <1>3 DEF IInv, Types, net, progress, history
<1>5. Known' = Known /\ Numbered'
  BY <1>2, SameKnown DEF IInv, Numbered, net
<1>6. ASSUME NEW t \in Services PROVE Own(t)'
  <2>1. \A a : CodeIn(chain, view[t], a) => CodeIn(chain, view[t], a)'
    <3> SUFFICES ASSUME NEW a, CodeIn(chain, view[t], a) PROVE CodeIn(chain', view'[t], a)
      OBVIOUS
    <3>1. chain' = chain /\ view[t] \in Nat /\ view'[t] \in Nat /\ view[t] <= view'[t]
      BY <1>2, <1>3 DEF net, IInv, Types
    <3> QED
      BY <3>1, CodeSynced
  <2>2. \A a : IsRegistrar(a) => IsRegistrar(a)'
    BY <1>2 DEF IsRegistrar, IsCode, net
  <2>3. /\ stage'[t] = stage[t] /\ step'[t] = step[t] /\ address'[t] = address[t]
        /\ stored'[t] = stored[t] /\ installs <= installs' /\ installs' \in Nat
        /\ chainLost \in BOOLEAN /\ (chainLost => chainLost')
        /\ \A x \in Known' : x \in Known \/ \A a \in 1 .. installs : ~IsCode(x, a)
    BY <1>2, <1>5 DEF progress, history, net, IInv, Types
  <2> QED
    BY <2>1, <2>2, <2>3, OwnStays
<1> QED
  BY <1>4, <1>5, <1>6 DEF IInv

-------------------------------------------------------------------------------
(* A service starts again, with its node's data or without.                *)

LEMMA StartsAgain ==
  ASSUME IInv, NEW s \in Services, Killed(s),
         pool' = pool \/ pool' = [pool EXCEPT ![s] = {}],
         \/ UNCHANGED <<view, chainLost>>
         \/ view' = [view EXCEPT ![s] = 0] /\ chainLost' = TRUE,
         account' \in [Services -> Nat],
         UNCHANGED <<chain, installs, stored>>
  PROVE  IInv'
<1>1. /\ stage' = [stage EXCEPT ![s] = 1]
      /\ step' = [step EXCEPT ![s] = "starting"]
      /\ address' = [address EXCEPT ![s] = NoAddresses]
      /\ nonce' = [nonce EXCEPT ![s] = 0]
      /\ fileLost' = (fileLost \/ step[s] = "storing")
  BY DEF Killed, Go
<1>2. /\ pool' \in [Services -> SUBSET Transactions]
      /\ \A t \in Services : pool'[t] \subseteq pool[t]
  BY DEF IInv, Types
<1>3. Known' \subseteq Known
  BY <1>2 DEF Known
<1>4. \A t \in Services :
        /\ address'[t] = IF t = s THEN NoAddresses ELSE address[t]
        /\ stage'[t] = IF t = s THEN 1 ELSE stage[t]
        /\ step'[t] = IF t = s THEN "starting" ELSE step[t]
        /\ t # s => view'[t] = view[t]
  BY <1>1 DEF IInv, Types
<1>5. Types'
  <2>1. DOMAIN address' = Services /\ \A t \in Services : DOMAIN address'[t] = Stages
    <3>1. DOMAIN NoAddresses = Stages
      BY DEF NoAddresses, Stages
    <3> QED
      BY <1>1, <1>4, <3>1 DEF IInv, Types
  <2>2. /\ stage' \in [Services -> 1 .. 4] /\ step' \in [Services -> Steps]
        /\ DOMAIN nonce' = Services /\ fileLost' \in BOOLEAN
    BY <1>1 DEF IInv, Types, Steps
  <2>3. /\ view' \in [Services -> Nat] /\ chainLost' \in BOOLEAN
        /\ \A t \in Services : view'[t] <= Len(chain)
    <3>1. Len(chain) \in Nat
      BY DEF IInv, Types
    <3>2. CASE UNCHANGED <<view, chainLost>>
      BY <3>2 DEF IInv, Types
    <3>3. CASE view' = [view EXCEPT ![s] = 0] /\ chainLost' = TRUE
      BY <3>1, <3>3 DEF IInv, Types
    <3> QED
      BY <3>2, <3>3
  <2> QED
    BY <1>2, <2>1, <2>2, <2>3 DEF IInv, Types
<1>6. Numbered'
  BY <1>3 DEF IInv, Numbered
<1>7. ASSUME NEW t \in Services PROVE Own(t)'
  <2>1. \A a : IsRegistrar(a) => IsRegistrar(a)'
    BY DEF IsRegistrar, IsCode
  <2>2. CASE t = s
    <3>1. stage'[t] = 1 /\ step'[t] = "starting" /\ stored'[t] = stored[t]
      BY <1>4, <2>2
    <3>2. ~chainLost' => view' = view /\ ~chainLost
      OBVIOUS
    <3>3. StoredIsRegistrar(t)
      BY DEF IInv, Own
    <3>4. StoredIsRegistrar(t)'
      BY <2>1, <3>1, <3>2, <3>3 DEF StoredIsRegistrar
    <3> QED
      BY <3>1, <3>4 DEF Own, InstallsItsStage, HasItsContracts, Stages
  <2>3. CASE t # s
    <3>1. \A a : CodeIn(chain, view[t], a) => CodeIn(chain, view[t], a)'
      BY <1>4, <2>3 DEF CodeIn, IsCode
    <3>2. /\ stage'[t] = stage[t] /\ step'[t] = step[t] /\ address'[t] = address[t]
          /\ stored'[t] = stored[t] /\ installs <= installs' /\ installs' \in Nat
          /\ chainLost \in BOOLEAN /\ (chainLost => chainLost')
          /\ \A x \in Known' : x \in Known \/ \A a \in 1 .. installs : ~IsCode(x, a)
      BY <1>3, <1>4, <2>3 DEF IInv, Types
    <3> QED
      BY <2>1, <3>1, <3>2, OwnStays
  <2> QED
    BY <2>2, <2>3
<1> QED
  BY <1>5, <1>6, <1>7 DEF IInv

LEMMA CrashInvariant ==
  ASSUME IInv, NEW s \in Services, Crash(s)
  PROVE  IInv'
<1>1. account' \in [Services -> Nat]
  BY DEF Crash, IInv, Types
<1> QED
  BY <1>1, StartsAgain DEF Crash, PoolMayBeLost

LEMMA NodeLosesChainInvariant ==
  ASSUME IInv, NEW s \in Services, NodeLosesChain(s)
  PROVE  IInv'
<1>1. account' \in [Services -> Nat]
  <2>1. Len(chain) \in Nat /\ account \in [Services -> Nat]
    BY DEF IInv, Types
  <2> QED
    BY <2>1 DEF NodeLosesChain
<1> QED
  BY <1>1, StartsAgain DEF NodeLosesChain, PoolMayBeLost

-------------------------------------------------------------------------------
(* The theorems.                                                           *)

LEMMA StepInvariant == IInv /\ [Next]_vars => IInv'
<1> SUFFICES ASSUME IInv, [Next]_vars PROVE IInv'
  OBVIOUS
<1>1. CASE UNCHANGED vars
  <2>1. UNCHANGED <<chain, pool, installs, account, view, nonce, stored, stage, step, address,
                    fileLost, chainLost>>
    BY <1>1 DEF vars, net, progress, history
  <2>2. Types' /\ Numbered'
    BY <2>1 DEF IInv, Types, Numbered, Known
  <2>3. \A t \in Services : Own(t)'
    BY <2>1 DEF IInv, Known, IsRegistrar, Own, InstallsItsStage, HasItsContracts,
      StoredIsRegistrar, CodeIn, IsCode
  <2> QED
    BY <2>2, <2>3 DEF IInv
<1>2. CASE Next
  <2>1. PICK s \in Services :
          ServiceStep(s) \/ Mine(s) \/ Sync(s) \/ Crash(s) \/ NodeLosesChain(s)
    BY <1>2 DEF Next
  <2>2. CASE ServiceStep(s)
    BY <2>2, StartInvariant, FoundInvariant, InstallContractInvariant, RefusedInvariant,
      InstalledInvariant, StoredInvariant, TellInvariant, NamedInvariant, ConfiguredInvariant,
      ResolvedInvariant, AttachedInvariant DEF ServiceStep
  <2>3. CASE Mine(s) \/ Sync(s)
    BY <2>3, MineInvariant, SyncInvariant
  <2>4. CASE Crash(s) \/ NodeLosesChain(s)
    BY <2>4, CrashInvariant, NodeLosesChainInvariant
  <2> QED
    BY <2>1, <2>2, <2>3, <2>4
<1> QED
  BY <1>1, <1>2

LEMMA InvariantHolds == Spec => []IInv
<1>1. Init => IInv
  BY InitInvariant
<1>2. IInv /\ [Next]_vars => IInv'
  BY StepInvariant
<1> QED
  BY <1>1, <1>2, PTL DEF Spec

LEMMA InvariantImpliesTypes == IInv => TypeOK
<1> SUFFICES ASSUME IInv, NEW s \in Services
             PROVE  /\ view[s] \in 0 .. Len(chain)
                    /\ step[s] \in {"starting", "find", "installing", "storing", "telling",
                                     "naming", "waiting", "ended"}
                    /\ stage[s] \in 1 .. Serving
                    /\ \A i \in 1 .. stage[s] - 1 : HasContract(s, address[s][i])
                    /\ stored[s] # Zero => \E tx \in InstallsOf(Names[1]) : tx.id = stored[s]
  BY DEF TypeOK
<1>1. /\ view[s] \in 0 .. Len(chain)
      /\ step[s] \in {"starting", "find", "installing", "storing", "telling", "naming",
                       "waiting", "ended"}
      /\ stage[s] \in 1 .. Serving
  BY FourStages DEF IInv, Types, Steps
<1>2. ASSUME NEW i \in 1 .. stage[s] - 1 PROVE HasContract(s, address[s][i])
  <2>1. i \in Stages /\ i < stage[s]
    <3>1. stage[s] \in 1 .. 4
      BY DEF IInv, Types
    <3> QED
      BY <3>1 DEF Stages
  <2> QED
    BY <2>1, ContractIsCode DEF IInv, Own, HasItsContracts
<1>3. ASSUME stored[s] # Zero PROVE \E tx \in InstallsOf(Names[1]) : tx.id = stored[s]
  <2>1. PICK j \in 1 .. Len(chain) : IsCode(chain[j], stored[s]) /\ chain[j].name = Names[1]
    BY <1>3 DEF IInv, Own, StoredIsRegistrar, IsRegistrar
  <2>2. chain[j] \in ToSet(chain)
    BY DEF ToSet, IInv, Types
  <2> QED
    BY <2>1, <2>2 DEF InstallsOf, IsCode
<1> QED
  BY <1>1, <1>2, <1>3

\* A service is at a stage only when its node has the contracts of all earlier
\* ones at the addresses it uses, and what registrar.properties holds is the
\* address of a registrar that was mined.
THEOREM ContractsBeforeService == Spec => []TypeOK
BY InvariantHolds, InvariantImpliesTypes, PTL

\* Only InstallContract begins an installation.
LEMMA InstallationBegins ==
  ASSUME IInv, [Next]_vars, NEW s \in Services,
         step[s] # "installing", step'[s] = "installing"
  PROVE  InstallContract(s)
<1>1. CASE UNCHANGED vars
  BY <1>1 DEF vars, progress
<1>2. CASE Next
  <2>1. PICK t \in Services :
          ServiceStep(t) \/ Mine(t) \/ Sync(t) \/ Crash(t) \/ NodeLosesChain(t)
    BY <1>2 DEF Next
  <2>2. step \in [Services -> Steps]
    BY DEF IInv, Types
  <2>3. CASE InstallContract(t)
    BY <2>2, <2>3 DEF InstallContract, Go
  <2>4. CASE Mine(t) \/ Sync(t)
    BY <2>4 DEF Mine, Sync, progress
  <2>5. CASE \E x \in Steps \ {"installing"} : step' = [step EXCEPT ![t] = x]
    BY <2>2, <2>5
  <2>6. \A a : NextStage(t, a) \/ Store(t, a) =>
                 \E x \in Steps \ {"installing"} : step' = [step EXCEPT ![t] = x]
    BY DEF NextStage, Store, Go, Steps
  <2>7. Found(t) \/ Stored(t) \/ Named(t) \/ Attached(t) =>
          \E x \in Steps \ {"installing"} : step' = [step EXCEPT ![t] = x]
    BY <2>6 DEF Found, Stored, Named, Attached
  <2>8. Installed(t) => \E x \in Steps \ {"installing"} : step' = [step EXCEPT ![t] = x]
    BY <2>6 DEF Installed, Go, Steps
  <2>9. Start(t) \/ InstallRefused(t) \/ Tell(t) =>
          \E x \in Steps \ {"installing"} : step' = [step EXCEPT ![t] = x]
    BY DEF Start, InstallRefused, Tell, Go, Steps
  <2>10. Configured(t) \/ Resolved(t) \/ Crash(t) \/ NodeLosesChain(t) =>
           \E x \in Steps \ {"installing"} : step' = [step EXCEPT ![t] = x]
    BY DEF Configured, Resolved, Crash, NodeLosesChain, Killed, Go, Steps
  <2> QED
    BY <2>1, <2>3, <2>4, <2>5, <2>7, <2>8, <2>9, <2>10 DEF ServiceStep
<1> QED
  BY <1>1, <1>2

\* A primary that has stored the address of a registrar never installs
\* another one, at whatever points it was killed, unless a node lost its chain.
THEOREM NoSecondRegistrar == Spec => StoredIsUsed
<1>1. ASSUME IInv, [Next]_vars, NEW s \in Primaries,
             stored[s] # Zero, stage[s] = 1, step'[s] = "installing"
      PROVE  chainLost
  <2>1. SUFFICES ASSUME ~chainLost PROVE FALSE
    OBVIOUS
  <2>2. s \in Services
    BY DEF Services
  <2>3. CodeIn(chain, view[s], stored[s]) /\ step[s] # "installing"
    BY <1>1, <2>1, <2>2 DEF IInv, Own, StoredIsRegistrar
  <2>4. InstallContract(s) /\ Candidate(s) = stored[s]
    BY <1>1, <2>2, <2>3, InstallationBegins DEF Candidate
  <2> QED
    BY <2>3, <2>4, ContractIsCode DEF InstallContract, NeedsContract
<1>2. IInv /\ [Next]_vars =>
        [\A s \in Primaries :
           stored[s] # Zero /\ stage[s] = 1 /\ step'[s] = "installing" => chainLost]_vars
  BY <1>1
<1> QED
  BY <1>2, InvariantHolds, PTL DEF Spec, StoredIsUsed

-------------------------------------------------------------------------------
(* One primary, and nothing lost.  It alone sends transactions, so that    *)
(* its nonces are the positions of its transactions on the chain.          *)

Told(tx) == tx.kind = "setAddress"
Tells(tx, a) == Told(tx) /\ tx.address = a
NamesStage(tx, i) == Told(tx) /\ tx.name = Names[i]

\* The registrar of the primary, which the file lacks while it is rewritten.
Registrar(p) == IF step[p] = "storing" THEN address[p][1] ELSE stored[p]

\* A primary installs and a secondary waits.
Roles(p) ==
  /\ step[p] # "waiting"
  /\ \A s \in Services \ {p} : step[s] \in {"starting", "find", "waiting"}

Alone(p) ==
  /\ account[p] = 0
  /\ \A s \in Services \ {p} : pool[s] = {}
  /\ \A tx \in Known : tx.from = p

OneRegistrar(p) ==
  \A tx \in Known : Told(tx) => Registrar(p) # Zero /\ tx.registrar = Registrar(p)

\* A registrar is told of contracts that are there.
CodeBefore(p) ==
  /\ \A k \in 1 .. Len(chain) : Told(chain[k]) => CodeIn(chain, k, chain[k].address)
  /\ \A tx \in pool[p] : Told(tx) => CodeIn(chain, Len(chain), tx.address)

\* It is told a name once, whatever was sent and lost before.
NamedOnce(p) ==
  \A k \in 1 .. Len(chain) :
    Told(chain[k]) =>
      /\ \A j \in 1 .. Len(chain) : Told(chain[j]) /\ chain[j].name = chain[k].name => j = k
      /\ \A tx \in pool[p] : Told(tx) => tx.name # chain[k].name

Ledger(p) == Alone(p) /\ OneRegistrar(p) /\ CodeBefore(p) /\ NamedOnce(p)

\* The next transaction comes after all the primary's node knows, and what it
\* waits for has one place on the chain: before it nobody tells that name.
Sending(p) ==
  LET n == nonce[p]
      a == address[p][stage[p]]
  IN  /\ n \in Nat
      /\ step[p] \in {"find", "storing"} => n <= view[p]
      /\ step[p] \in {"installing", "telling", "naming"} => n >= 1 /\ n - 1 <= view[p]
      /\ step[p] = "installing" =>
           /\ \A j \in 1 .. Len(chain) : IsCode(chain[j], a) => j = n
           /\ \A tx \in pool[p] : IsCode(tx, a) => Len(chain) = n - 1
      /\ step[p] \in {"installing", "telling"} =>
           /\ \A tx \in Known : ~Tells(tx, a)
           /\ stage[p] # 1 => \A j \in 1 .. n - 1 : ~NamesStage(chain[j], stage[p])
      /\ step[p] = "naming" =>
           /\ \A j \in 1 .. Len(chain) :
                Tells(chain[j], a) => j = n /\ NamesStage(chain[j], stage[p])
           /\ \A tx \in pool[p] :
                Tells(tx, a) => Len(chain) = n - 1 /\ NamesStage(tx, stage[p])

\* Who has a registrar has that of the primary, and who has another contract
\* has one that the registrar was told.
Joined(s) == stage[s] > 1 \/ step[s] = "waiting"
UsesStored(p) ==
  \A s \in Services : Joined(s) => Registrar(p) # Zero /\ address[s][1] = Registrar(p)

NamedStages == 2 .. 3
Holds(s, i) == stage[s] > i \/ (stage[s] = i /\ step[s] = "waiting")
UsesNamed ==
  \A s \in Services : \A i \in NamedStages :
    Holds(s, i) =>
      \E k \in 1 .. Len(chain) : NamesStage(chain[k], i) /\ chain[k].address = address[s][i]

OneChain(p) == Roles(p) /\ Ledger(p) /\ Sending(p) /\ UsesStored(p) /\ UsesNamed

\* Addresses are functions on the stages.
Rows == \A s \in Services : address[s] = [i \in Stages |-> address[s][i]]

-------------------------------------------------------------------------------
(* What the invariant says of counts and names.                            *)

LEMMA PrimaryIs ==
  ASSUME NEW p, Primaries = {p}
  PROVE  /\ p \in Services /\ p \notin Secondaries
         /\ \A s \in Services : s # p => s \notin Primaries
BY ServicesAssumption DEF Services

\* All that is mined is of the primary.
LEMMA CountIs ==
  ASSUME IInv, NEW p \in Services, Alone(p), NEW n \in 0 .. Len(chain)
  PROVE  TransactionCount(p, n) = n
<1>1. Len(chain) \in Nat /\ n \in Nat /\ n <= Len(chain)
  BY DEF IInv, Types
<1>2. \A i \in 1 .. n : chain[i].from = p
  BY <1>1 DEF Alone, Known
<1>3. {i \in account[p] + 1 .. n : chain[i].from = p} = 1 .. n
  BY <1>1, <1>2 DEF Alone
<1>4. Cardinality(1 .. n) = n
  BY <1>1, FS_Interval
<1> QED
  BY <1>3, <1>4 DEF TransactionCount

LEMMA PositionsAre ==
  ASSUME IInv, NEW s \in Services
  PROVE  /\ Len(chain) \in Nat /\ view[s] \in Nat /\ view[s] <= Len(chain)
         /\ view[s] \in 0 .. Len(chain) /\ Len(chain) \in 0 .. Len(chain)
BY DEF IInv, Types

\* What the registrar was told is an address of a contract.
LEMMA ToldIsCode ==
  ASSUME IInv, NEW p \in Services, Ledger(p), NEW tx \in Known, Told(tx)
  PROVE  tx.address \in 1 .. installs /\ tx.address # Zero
<1>1. Len(chain) \in Nat
  BY DEF IInv, Types
<1>2. CodeIn(chain, Len(chain), tx.address)
  <2>1. CASE \E k \in 1 .. Len(chain) : tx = chain[k]
    BY <1>1, <2>1 DEF Ledger, CodeBefore, CodeIn
  <2>2. CASE \E s \in Services : tx \in pool[s]
    BY <2>2 DEF Ledger, CodeBefore, Alone
  <2> QED
    BY <2>1, <2>2 DEF Known
<1>3. PICK j \in 1 .. Len(chain) : IsCode(chain[j], tx.address)
  BY <1>2 DEF CodeIn
<1>4. chain[j] \in Transactions /\ chain[j] \in Known
  BY <1>3 DEF IInv, Types, Known
<1>5. tx.address \in Nat
  BY <1>3, <1>4 DEF IsCode, Transactions
<1> QED
  BY <1>3, <1>4, <1>5 DEF IInv, Numbered, Zero

\* The registrar gives the one address it was told under a name.
LEMMA RegistrarSays ==
  ASSUME IInv, NEW p \in Services, Ledger(p), NEW i, NEW n \in 0 .. Len(chain)
  PROVE  \/ /\ GetAddress(n, Registrar(p), Names[i]) = Zero
            /\ \A k \in 1 .. n : ~NamesStage(chain[k], i)
         \/ \E k \in 1 .. n : /\ NamesStage(chain[k], i)
                              /\ GetAddress(n, Registrar(p), Names[i]) = chain[k].address
                              /\ chain[k].address # Zero
<1> DEFINE set == {k \in 1 .. n : /\ chain[k].kind = "setAddress"
                                  /\ chain[k].registrar = Registrar(p)
                                  /\ chain[k].name = Names[i]}
<1>1. Len(chain) \in Nat /\ n \in Nat /\ n <= Len(chain)
  BY DEF IInv, Types
<1>2. \A k \in 1 .. n : k \in 1 .. Len(chain) /\ chain[k] \in Known
  BY <1>1 DEF Known
<1>3. \A k \in 1 .. n : k \in set <=> NamesStage(chain[k], i)
  BY <1>2 DEF Ledger, OneRegistrar, NamesStage, Told
<1>4. GetAddress(n, Registrar(p), Names[i]) = IF set = {} THEN Zero ELSE chain[Max(set)].address
  BY DEF GetAddress
<1>5. set \subseteq 1 .. n
  OBVIOUS
<1> HIDE DEF set
<1>6. CASE set = {}
  BY <1>3, <1>4, <1>6
<1>7. CASE set # {}
  <2>1. PICK k \in 1 .. n : k \in set
    BY <1>5, <1>7
  <2>2. NamesStage(chain[k], i) /\ chain[k] \in Known
    BY <1>2, <1>3, <2>1
  <2>3. \A j \in set : j = k
    <3>1. \A j \in set : j \in 1 .. Len(chain) /\ NamesStage(chain[j], i)
      BY <1>2, <1>3, <1>5
    <3> QED
      BY <1>2, <2>1, <2>2, <3>1 DEF Ledger, NamedOnce, NamesStage
  <2>4. set = {k} /\ k >= k
    <3>1. k >= k
      BY <1>1, <2>1
    <3> QED
      BY <2>1, <2>3, <3>1
  <2>5. Max(set) = k
    BY <2>4 DEF Max
  <2>6. chain[k].address # Zero
    BY <2>2, ToldIsCode DEF NamesStage
  <2> QED
    BY <1>4, <1>7, <2>2, <2>5, <2>6
<1> QED
  BY <1>6, <1>7

-------------------------------------------------------------------------------
(* How the parts of the invariant are kept.                                *)

LEMMA LedgerStays ==
  ASSUME NEW p \in Services, Ledger(p), UNCHANGED net,
         Registrar(p)' = Registrar(p) \/ Registrar(p) = Zero
  PROVE  Ledger(p)'
<1>1. UNCHANGED <<chain, pool, account>> /\ Known' = Known
  BY SameKnown DEF net
<1>2. Alone(p)'
  BY <1>1 DEF Ledger, Alone
<1>3. OneRegistrar(p)'
  BY <1>1 DEF Ledger, OneRegistrar, Told
<1>4. CodeBefore(p)'
  BY <1>1 DEF Ledger, CodeBefore, Told, CodeIn, IsCode
<1>5. NamedOnce(p)'
  BY <1>1 DEF Ledger, NamedOnce, Told
<1> QED
  BY <1>2, <1>3, <1>4, <1>5 DEF Ledger

\* What a node takes replaces what it had, and is to be mined next.
LEMMA AdmitLedger ==
  ASSUME IInv, NEW p \in Services, Ledger(p), NEW n, NEW tx \in Transactions,
         tx.from = p, Admit(p, n, tx), Registrar(p)' = Registrar(p),
         Told(tx) =>
           /\ Registrar(p) # Zero /\ tx.registrar = Registrar(p)
           /\ CodeIn(chain, Len(chain), tx.address)
           /\ n = Len(chain) =>
                \A k \in 1 .. Len(chain) : Told(chain[k]) => chain[k].name # tx.name
  PROVE  Ledger(p)'
<1>1. /\ UNCHANGED <<chain, account>> /\ pool \in [Services -> SUBSET Transactions]
      /\ Known' \subseteq Known \cup {tx}
  BY AdmitKnown DEF IInv, Types
<1>2. TransactionCount(p, Len(chain)) = Len(chain)
  BY CountIs, PositionsAre DEF Ledger
<1>3. \/ pool' = pool
      \/ pool' = [pool EXCEPT ![p] = {tx}] /\ n = Len(chain)
  BY <1>2 DEF Admit
<1>4. /\ \A s \in Services \ {p} : pool'[s] = pool[s]
      /\ \A x \in pool'[p] : x \in pool[p] \/ (x = tx /\ n = Len(chain))
  BY <1>1, <1>3
<1>5. Alone(p)'
  BY <1>1, <1>4 DEF Ledger, Alone
<1>6. OneRegistrar(p)'
  BY <1>1 DEF Ledger, OneRegistrar, Told
<1>7. CodeBefore(p)'
  <2>1. \A k \in 1 .. Len(chain) : Told(chain[k]) => CodeIn(chain, k, chain[k].address)
    BY DEF Ledger, CodeBefore
  <2>2. \A x \in pool'[p] : Told(x) => CodeIn(chain, Len(chain), x.address)
    BY <1>4 DEF Ledger, CodeBefore
  <2> QED
    BY <1>1, <2>1, <2>2 DEF CodeBefore
<1>8. NamedOnce(p)'
  <2> SUFFICES ASSUME NEW k \in 1 .. Len(chain), Told(chain[k])
               PROVE  /\ \A j \in 1 .. Len(chain) :
                           Told(chain[j]) /\ chain[j].name = chain[k].name => j = k
                      /\ \A x \in pool'[p] : Told(x) => x.name # chain[k].name
    BY <1>1 DEF NamedOnce
  <2> QED
    BY <1>4 DEF Ledger, NamedOnce
<1> QED
  BY <1>5, <1>6, <1>7, <1>8 DEF Ledger

LEMMA MineLedger ==
  ASSUME IInv, NEW p \in Services, Ledger(p), Mine(p)
  PROVE  Ledger(p)'
<1>1. PICK tx \in pool[p] : chain' = Append(chain, tx)
  BY DEF Mine
<1>2. /\ chain \in Seq(Transactions) /\ tx \in Transactions /\ tx \in Known
      /\ pool \in [Services -> SUBSET Transactions]
      /\ pool' = [pool EXCEPT ![p] = {}]
      /\ UNCHANGED <<account, stored, step, address>>
  BY DEF Mine, IInv, Types, progress, Known
<1>3. /\ Len(chain) \in Nat /\ Len(chain') = Len(chain) + 1
      /\ \A j \in 1 .. Len(chain) : chain'[j] = chain[j]
      /\ chain'[Len(chain) + 1] = tx
      /\ \A j \in 1 .. Len(chain') : j = Len(chain) + 1 \/ j \in 1 .. Len(chain)
  BY <1>1, <1>2
<1>4. pool'[p] = {} /\ \A s \in Services : pool'[s] \subseteq pool[s]
  BY <1>2
<1>5. Known' \subseteq Known
  <2>1. \A j \in 1 .. Len(chain') : chain'[j] \in Known
    <3>1. \A j \in 1 .. Len(chain) : chain[j] \in Known
      BY DEF Known
    <3> QED
      BY <1>2, <1>3, <3>1
  <2>2. \A s \in Services : \A x \in pool'[s] : x \in Known
    BY <1>4 DEF Known
  <2> QED
    BY <2>1, <2>2 DEF Known
<1>6. Alone(p)'
  BY <1>2, <1>4, <1>5 DEF Ledger, Alone
<1>7. OneRegistrar(p)'
  BY <1>2, <1>5 DEF Ledger, OneRegistrar, Told, Registrar
<1>8. CodeBefore(p)'
  <2> SUFFICES ASSUME NEW k \in 1 .. Len(chain'), Told(chain'[k])
               PROVE  CodeIn(chain', k, chain'[k].address)
    BY <1>4 DEF CodeBefore
  <2>1. CASE k \in 1 .. Len(chain)
    <3>1. CodeIn(chain, k, chain[k].address) /\ k \in 0 .. Len(chain)
      BY <1>3, <2>1 DEF Ledger, CodeBefore
    <3> QED
      BY <1>1, <1>2, <1>3, <2>1, <3>1, CodeStays
  <2>2. CASE k = Len(chain) + 1
    <3>1. CodeIn(chain, Len(chain), tx.address) /\ Len(chain) \in 0 .. Len(chain)
      BY <1>3, <2>2 DEF Ledger, CodeBefore
    <3>2. CodeIn(chain', Len(chain), tx.address)
      BY <1>1, <1>2, <3>1, CodeStays
    <3> QED
      BY <1>3, <2>2, <3>2, CodeSynced
  <2> QED
    BY <1>3, <2>1, <2>2
<1>9. NamedOnce(p)'
  <2>1. \A j \in 1 .. Len(chain) : Told(tx) /\ Told(chain[j]) => chain[j].name # tx.name
    BY DEF Ledger, NamedOnce
  <2>2. \A j, k \in 1 .. Len(chain) :
          Told(chain[j]) /\ Told(chain[k]) /\ chain[j].name = chain[k].name => j = k
    BY DEF Ledger, NamedOnce
  <2>3. \A j, k \in 1 .. Len(chain') :
          Told(chain'[j]) /\ Told(chain'[k]) /\ chain'[j].name = chain'[k].name => j = k
    BY <1>3, <2>1, <2>2
  <2> QED
    BY <1>4, <2>3 DEF NamedOnce
<1> QED
  BY <1>6, <1>7, <1>8, <1>9 DEF Ledger

\* A transaction of the pool is lost.
LEMMA LossLedger ==
  ASSUME IInv, NEW p \in Services, NEW s \in Services, Ledger(p),
         pool' = pool \/ pool' = [pool EXCEPT ![s] = {}],
         UNCHANGED <<chain, account>>, Registrar(p)' = Registrar(p)
  PROVE  Ledger(p)'
<1>1. \A t \in Services : pool'[t] \subseteq pool[t]
  BY DEF IInv, Types
<1>2. Known' \subseteq Known
  BY <1>1 DEF Known
<1>3. Alone(p)'
  BY <1>1, <1>2 DEF Ledger, Alone
<1>4. OneRegistrar(p)'
  BY <1>2 DEF Ledger, OneRegistrar, Told
<1>5. CodeBefore(p)'
  <2>1. \A k \in 1 .. Len(chain) : Told(chain[k]) => CodeIn(chain, k, chain[k].address)
    BY DEF Ledger, CodeBefore
  <2>2. \A x \in pool'[p] : Told(x) => CodeIn(chain, Len(chain), x.address)
    BY <1>1 DEF Ledger, CodeBefore
  <2> QED
    BY <2>1, <2>2 DEF CodeBefore
<1>6. NamedOnce(p)'
  BY <1>1 DEF Ledger, NamedOnce, Told
<1> QED
  BY <1>3, <1>4, <1>5, <1>6 DEF Ledger

\* Nothing is asked of a primary that waits for no transaction but its nonce.
LEMMA NothingSent ==
  ASSUME NEW p \in Services,
         step'[p] \in {"starting", "find", "storing", "ended"}, nonce'[p] \in Nat,
         step'[p] \in {"find", "storing"} => nonce'[p] <= view'[p]
  PROVE  Sending(p)'
BY DEF Sending

\* The steps of others and of its node keep what it waits for.
LEMMA SendingStays ==
  ASSUME NEW p \in Services, Sending(p), UNCHANGED net,
         step'[p] = step[p], stage'[p] = stage[p], address'[p] = address[p],
         nonce'[p] = nonce[p], view[p] \in Nat, view'[p] \in Nat, view[p] <= view'[p]
  PROVE  Sending(p)'
<1>1. UNCHANGED <<chain, pool>> /\ Known' = Known
  BY SameKnown DEF net
<1> QED
  BY <1>1 DEF Sending, Tells, Told, NamesStage, IsCode

\* Nobody joins.
LEMMA UsesStay ==
  ASSUME NEW p \in Services, UsesStored(p), UsesNamed, UNCHANGED chain,
         Registrar(p)' = Registrar(p) \/ Registrar(p) = Zero,
         \A t \in Services : Joined(t)' => Joined(t) /\ address'[t][1] = address[t][1],
         \A t \in Services : \A i \in NamedStages :
           Holds(t, i)' => Holds(t, i) /\ address'[t][i] = address[t][i]
  PROVE  UsesStored(p)' /\ UsesNamed'
BY DEF UsesStored, UsesNamed, NamesStage, Told

\* A service takes the address of its stage or has its contract.
LEMMA UsesGrow ==
  ASSUME IInv, NEW p \in Services, NEW s \in Services, NEW a, UsesStored(p), UsesNamed,
         UNCHANGED chain, Registrar(p)' = Registrar(p), stage[s] \in Stages,
         address' = [address EXCEPT ![s][stage[s]] = a],
         stage' = stage \/ stage' = [stage EXCEPT ![s] = @ + 1],
         \A t \in Services : t # s => step'[t] = step[t],
         stage[s] = 1 => Registrar(p) # Zero /\ a = Registrar(p),
         stage[s] # 1 =>
           \E k \in 1 .. Len(chain) : NamesStage(chain[k], stage[s]) /\ chain[k].address = a,
         stage' # stage => step'[s] # "waiting"
  PROVE  UsesStored(p)' /\ UsesNamed'
<1>1. /\ \A i \in Stages : address'[s][i] = IF i = stage[s] THEN a ELSE address[s][i]
      /\ \A t \in Services : t # s => address'[t] = address[t] /\ stage'[t] = stage[t]
      /\ stage[s] \in 1 .. 3 /\ stage'[s] \in stage[s] .. stage[s] + 1
      /\ (stage'[s] = stage[s] + 1 => step'[s] # "waiting")
  BY DEF IInv, Types, Stages
<1>2. UsesStored(p)'
  <2> SUFFICES ASSUME NEW t \in Services, Joined(t)'
               PROVE  Registrar(p) # Zero /\ address'[t][1] = Registrar(p)
    BY DEF UsesStored
  <2>1. CASE t # s
    BY <1>1, <2>1 DEF UsesStored, Joined
  <2>2. CASE t = s /\ stage[s] = 1
    BY <1>1, <2>2 DEF Stages
  <2>3. CASE t = s /\ stage[s] # 1
    BY <1>1, <2>3 DEF UsesStored, Joined, Stages
  <2> QED
    BY <2>1, <2>2, <2>3
<1>3. UsesNamed'
  <2> SUFFICES ASSUME NEW t \in Services, NEW i \in NamedStages, Holds(t, i)'
               PROVE  \E k \in 1 .. Len(chain) :
                        NamesStage(chain[k], i) /\ chain[k].address = address'[t][i]
    BY DEF UsesNamed, NamesStage, Told
  <2>1. i \in Stages /\ i # 1
    BY DEF NamedStages, Stages
  <2>2. CASE t # s
    BY <1>1, <2>2 DEF UsesNamed, Holds
  <2>3. CASE t = s /\ i = stage[s]
    BY <1>1, <2>1, <2>3
  <2>4. CASE t = s /\ i # stage[s]
    <3>1. stage[s] > i
      BY <1>1, <2>1, <2>4 DEF Holds, Stages
    <3> QED
      BY <1>1, <2>1, <2>4, <3>1 DEF UsesNamed, Holds
  <2> QED
    BY <2>2, <2>3, <2>4
<1> QED
  BY <1>2, <1>3

\* A node takes the next transaction, or never has it mined.
LEMMA AdmitIs ==
  ASSUME IInv, NEW p \in Services, Ledger(p), NEW n, NEW tx \in Transactions, Admit(p, n, tx)
  PROVE  /\ n >= view[p]
         /\ \A x \in pool'[p] : x \in pool[p] \/ (x = tx /\ n = Len(chain))
<1>1. /\ TransactionCount(p, Len(chain)) = Len(chain)
      /\ TransactionCount(p, view[p]) = view[p]
  BY CountIs, PositionsAre DEF Ledger
<1>2. pool \in [Services -> SUBSET Transactions]
  BY DEF IInv, Types
<1> QED
  BY <1>1, <1>2 DEF Admit

LEMMA GoesOn ==
  ASSUME IInv, NEW p \in Services, Roles(p), NEW s \in Services, NEW x,
         step' = [step EXCEPT ![s] = x],
         s = p => x # "waiting", s # p => x \in {"starting", "find", "waiting"}
  PROVE  /\ Roles(p)' /\ step'[s] = x
         /\ \A t \in Services : t # s => step'[t] = step[t]
<1>1. step'[s] = x /\ \A t \in Services : t # s => step'[t] = step[t]
  BY DEF IInv, Types
<1> QED
  BY <1>1 DEF Roles

\* The registrar's address for the contract of a stage, as a service sees it.
LEMMA CandidateNamed ==
  ASSUME IInv, NEW p \in Services, OneChain(p), NEW s \in Services, stage[s] \in NamedStages
  PROVE  \/ /\ Candidate(s) = Zero
            /\ \A k \in 1 .. view[s] : ~NamesStage(chain[k], stage[s])
         \/ \E k \in 1 .. view[s] : /\ NamesStage(chain[k], stage[s])
                                    /\ Candidate(s) = chain[k].address
                                    /\ chain[k].address # Zero
<1>1. stage[s] # 1 /\ stage[s] > 1
  BY DEF NamedStages
<1>2. address[s][1] = Registrar(p)
  BY <1>1 DEF OneChain, UsesStored, Joined
<1>3. Candidate(s) = GetAddress(view[s], Registrar(p), Names[stage[s]])
  BY <1>1, <1>2 DEF Candidate
<1> QED
  BY <1>3, RegistrarSays, PositionsAre DEF OneChain

\* What was told has code where it was told.
LEMMA NamedHasCode ==
  ASSUME IInv, NEW p \in Services, Ledger(p), NEW s \in Services, NEW k \in 1 .. view[s],
         Told(chain[k])
  PROVE  HasContract(s, chain[k].address)
<1>1. k \in 1 .. Len(chain) /\ k \in Nat /\ k <= view[s] /\ view[s] \in Nat
  BY PositionsAre
<1>2. CodeIn(chain, k, chain[k].address)
  BY <1>1 DEF Ledger, CodeBefore
<1> QED
  BY <1>1, <1>2, CodeSynced, ContractIsCode

-------------------------------------------------------------------------------
(* Every action preserves it while nothing is lost.                        *)

LEMMA StartOneChain ==
  ASSUME IInv, NEW p \in Services, OneChain(p), NEW s \in Services, Start(s)
  PROVE  OneChain(p)'
<1>1. /\ step[s] = "starting" /\ step' = [step EXCEPT ![s] = "find"]
      /\ nonce' = [nonce EXCEPT ![s] = TransactionCount(s, view[s])]
      /\ UNCHANGED <<net, view, stored, stage, address>>
  BY DEF Start, Go
<1>2. /\ Roles(p)' /\ step'[s] = "find"
      /\ \A t \in Services : t # s => step'[t] = step[t]
  BY <1>1, GoesOn DEF OneChain
<1>3. Registrar(p)' = Registrar(p)
  BY <1>1, <1>2 DEF Registrar
<1>4. Ledger(p)'
  BY <1>1, <1>3, LedgerStays DEF OneChain
<1>5. Sending(p)'
  <2>1. /\ nonce'[s] = TransactionCount(s, view[s])
        /\ s # p => nonce'[p] = nonce[p]
    BY <1>1 DEF IInv, Types
  <2>2. CASE s = p
    <3>1. nonce'[p] = view[p] /\ view'[p] = view[p] /\ view[p] \in Nat /\ view[p] <= view[p]
      BY <1>1, <2>1, <2>2, CountIs, PositionsAre DEF OneChain, Ledger
    <3> QED
      BY <1>2, <2>2, <3>1, NothingSent
  <2>3. CASE s # p
    <3>1. view[p] \in Nat /\ view'[p] = view[p] /\ view[p] <= view'[p]
      BY <1>1, PositionsAre
    <3> QED
      BY <1>1, <1>2, <2>1, <2>3, <3>1, SendingStays DEF OneChain
  <2> QED
    BY <2>2, <2>3
<1>6. UsesStored(p)' /\ UsesNamed'
  <2>1. chain' = chain
    BY <1>1 DEF net
  <2>2. \A t \in Services : Joined(t)' => Joined(t) /\ address'[t][1] = address[t][1]
    BY <1>1, <1>2 DEF Joined
  <2>3. \A t \in Services : \A i \in NamedStages :
          Holds(t, i)' => Holds(t, i) /\ address'[t][i] = address[t][i]
    BY <1>1, <1>2 DEF Holds
  <2> QED
    BY <1>3, <2>1, <2>2, <2>3, UsesStay DEF OneChain
<1> QED
  BY <1>2, <1>4, <1>5, <1>6 DEF OneChain

\* The registrar is found again, or is the first.
LEMMA StoreOneChain ==
  ASSUME IInv, NEW p \in Services, OneChain(p), NEW a,
         Store(p, a), UNCHANGED <<net, view, nonce>>, ~fileLost',
         stage[p] = 1, step[p] # "storing", stored[p] = a \/ stored[p] = Zero,
         nonce[p] <= view[p]
  PROVE  OneChain(p)'
<1>1. /\ stored' = [stored EXCEPT ![p] = Zero]
      /\ step' = [step EXCEPT ![p] = "storing"]
      /\ address' = [address EXCEPT ![p][1] = a]
      /\ UNCHANGED stage
  BY DEF Store, Go
<1>2. /\ Roles(p)' /\ step'[p] = "storing"
      /\ \A t \in Services : t # p => step'[t] = step[t]
  BY <1>1, GoesOn DEF OneChain
<1>3. /\ address'[p][1] = a
      /\ \A t \in Services : t # p => address'[t] = address[t]
  BY <1>1 DEF IInv, Types, Stages
<1>4. Registrar(p)' = Registrar(p) \/ Registrar(p) = Zero
  BY <1>2, <1>3 DEF Registrar
<1>5. Ledger(p)'
  BY <1>4, LedgerStays DEF OneChain
<1>6. Sending(p)'
  <2>1. nonce'[p] \in Nat /\ nonce'[p] <= view'[p]
    BY DEF OneChain, Sending
  <2> QED
    BY <1>2, <2>1, NothingSent
<1>7. UsesStored(p)' /\ UsesNamed'
  <2>1. chain' = chain
    BY DEF net
  <2>2. \A t \in Services : Joined(t)' => Joined(t) /\ address'[t][1] = address[t][1]
    BY <1>1, <1>2, <1>3 DEF Joined
  <2>3. \A t \in Services : \A i \in NamedStages :
          Holds(t, i)' => Holds(t, i) /\ address'[t][i] = address[t][i]
    BY <1>1, <1>2, <1>3 DEF Holds, NamedStages
  <2> QED
    BY <1>4, <2>1, <2>2, <2>3, UsesStay DEF OneChain
<1> QED
  BY <1>2, <1>5, <1>6, <1>7 DEF OneChain

\* The primary has the contract of its stage.
LEMMA NextOneChain ==
  ASSUME IInv, NEW p \in Services, OneChain(p), NEW a,
         NextStage(p, a), UNCHANGED <<net, view, nonce>>, stage[p] \in Stages,
         Registrar(p)' = Registrar(p), nonce[p] <= view[p],
         stage[p] = 1 => Registrar(p) # Zero /\ a = Registrar(p),
         stage[p] # 1 =>
           \E k \in 1 .. Len(chain) : NamesStage(chain[k], stage[p]) /\ chain[k].address = a
  PROVE  OneChain(p)'
<1>1. /\ step' = [step EXCEPT ![p] = "find"]
      /\ stage' = [stage EXCEPT ![p] = @ + 1]
      /\ address' = [address EXCEPT ![p][stage[p]] = a]
  BY DEF NextStage, Go
<1>2. /\ Roles(p)' /\ step'[p] = "find"
      /\ \A t \in Services : t # p => step'[t] = step[t]
  BY <1>1, GoesOn DEF OneChain
<1>3. Ledger(p)'
  BY LedgerStays DEF OneChain
<1>4. Sending(p)'
  <2>1. nonce'[p] \in Nat /\ nonce'[p] <= view'[p]
    BY DEF OneChain, Sending
  <2> QED
    BY <1>2, <2>1, NothingSent
<1>5. chain' = chain
  BY DEF net
<1>6. UsesStored(p)' /\ UsesNamed'
  BY <1>1, <1>2, <1>5, UsesGrow DEF OneChain
<1> QED
  BY <1>2, <1>3, <1>4, <1>6 DEF OneChain

LEMMA FoundOneChain ==
  ASSUME IInv, NEW p \in Services, OneChain(p), Found(p), ~fileLost'
  PROVE  OneChain(p)'
<1> DEFINE a == Candidate(p)
<1>1. /\ stage[p] \in Stages /\ step[p] = "find" /\ HasContract(p, a)
      /\ UNCHANGED <<net, view, nonce>> /\ nonce[p] <= view[p]
  BY FourStages DEF Found, IInv, Types, Stages, OneChain, Sending
<1>2. CASE stage[p] = 1
  <2>1. a = stored[p] /\ Store(p, a)
    BY <1>2 DEF Found, Candidate
  <2> HIDE DEF a
  <2> QED
    BY <1>1, <1>2, <2>1, StoreOneChain
<1>3. CASE stage[p] # 1
  <2>1. NextStage(p, a) /\ UNCHANGED stored
    BY <1>3 DEF Found
  <2>2. step'[p] = "find"
    BY <2>1 DEF NextStage, Go, IInv, Types
  <2>3. Registrar(p)' = Registrar(p)
    BY <1>1, <2>1, <2>2 DEF Registrar
  <2>4. stage[p] \in NamedStages
    BY <1>1, <1>3 DEF Stages, NamedStages
  <2>5. a # Zero
    BY <1>1, CodeIsSent, ContractIsCode
  <2>6. \E k \in 1 .. Len(chain) : NamesStage(chain[k], stage[p]) /\ chain[k].address = a
    <3>1. PICK k \in 1 .. view[p] : NamesStage(chain[k], stage[p]) /\ a = chain[k].address
      BY <2>4, <2>5, CandidateNamed
    <3>2. k \in 1 .. Len(chain)
      BY PositionsAre
    <3> QED
      BY <3>1, <3>2
  <2> HIDE DEF a
  <2> QED
    BY <1>1, <1>3, <2>1, <2>3, <2>6, NextOneChain
<1> QED
  BY <1>2, <1>3

LEMMA InstallContractOneChain ==
  ASSUME IInv, NEW p \in Services, OneChain(p), InstallContract(p)
  PROVE  OneChain(p)'
<1> DEFINE n == nonce[p]
           tx == Install(p, Names[stage[p]], installs + 1)
<1>1. /\ stage[p] \in Stages /\ step[p] = "find" /\ ~HasContract(p, Candidate(p))
      /\ step' = [step EXCEPT ![p] = "installing"]
      /\ address' = [address EXCEPT ![p][stage[p]] = installs + 1]
      /\ Admit(p, n, tx)
      /\ nonce' = [nonce EXCEPT ![p] = @ + 1]
      /\ UNCHANGED <<view, stored, stage>>
  BY FourStages DEF InstallContract, NeedsContract, Go, IInv, Types, Stages
<1>2. /\ tx \in Transactions /\ tx.from = p /\ ~Told(tx)
      /\ installs \in Nat
  BY <1>1 DEF Transactions, Install, IInv, Types, Told
<1> HIDE DEF tx
<1>3. /\ Roles(p)' /\ step'[p] = "installing"
      /\ \A t \in Services : t # p => step'[t] = step[t]
  BY <1>1, GoesOn DEF OneChain
<1>4. /\ address'[p][stage[p]] = installs + 1
      /\ \A i \in Stages : i # stage[p] => address'[p][i] = address[p][i]
      /\ \A t \in Services : t # p => address'[t] = address[t]
  BY <1>1 DEF IInv, Types
<1>5. Registrar(p)' = Registrar(p)
  BY <1>1, <1>3 DEF Registrar
<1>6. Ledger(p)'
  BY <1>1, <1>2, <1>5, AdmitLedger DEF OneChain
<1>7. /\ Known' \subseteq Known \cup {tx} /\ chain' = chain
      /\ \A x \in pool'[p] : x \in pool[p] \/ (x = tx /\ n = Len(chain))
      /\ n >= view[p]
  BY <1>1, <1>2, AdmitKnown, AdmitIs DEF OneChain
<1>8. n = view[p] /\ n \in Nat /\ nonce'[p] = n + 1 /\ view'[p] = view[p] /\ stage'[p] = stage[p]
  <2>1. n \in Nat /\ n <= view[p] /\ view[p] \in Nat
    BY <1>1, PositionsAre DEF OneChain, Sending
  <2> QED
    BY <1>1, <1>7, <2>1 DEF IInv, Types
<1>9. \A x \in Known : ~IsCode(x, installs + 1) /\ ~Tells(x, installs + 1)
  <2>1. \A x \in Known : ~IsCode(x, installs + 1)
    BY <1>2 DEF IInv, Numbered
  <2>2. ASSUME NEW x \in Known, Told(x) PROVE x.address # installs + 1
    BY <1>2, <2>2, ToldIsCode DEF OneChain
  <2> QED
    BY <2>1, <2>2 DEF Tells
<1>10. ASSUME stage[p] # 1 PROVE \A k \in 1 .. view[p] : ~NamesStage(chain[k], stage[p])
  <2>1. stage[p] \in NamedStages
    BY <1>1, <1>10 DEF Stages, NamedStages
  <2>2. ASSUME NEW k \in 1 .. view[p], NamesStage(chain[k], stage[p])
        PROVE  HasContract(p, chain[k].address)
    BY <2>2, NamedHasCode DEF NamesStage, OneChain
  <2> QED
    BY <1>1, <2>1, <2>2, CandidateNamed
<1>11. Sending(p)'
  <2>1. \A j \in 1 .. Len(chain) : ~IsCode(chain[j], installs + 1)
    BY <1>9 DEF Known
  <2>2. \A x \in pool'[p] : IsCode(x, installs + 1) => Len(chain) = (n + 1) - 1
    <3>1. \A x \in pool[p] : x \in Known
      BY DEF Known
    <3> QED
      BY <1>7, <1>8, <1>9, <3>1
  <2>3. \A x \in Known' : ~Tells(x, installs + 1)
    BY <1>2, <1>7, <1>9 DEF Tells
  <2>4. stage[p] # 1 => \A j \in 1 .. (n + 1) - 1 : ~NamesStage(chain[j], stage[p])
    BY <1>8, <1>10
  <2>5. n + 1 \in Nat /\ n + 1 >= 1 /\ (n + 1) - 1 <= view[p]
    BY <1>8
  <2> HIDE DEF n
  <2>6. address'[p][stage'[p]] = installs + 1
    BY <1>4, <1>8
  <2> QED
    BY <1>3, <1>7, <1>8, <2>1, <2>2, <2>3, <2>4, <2>5, <2>6
    DEF Sending, Tells, Told, NamesStage, IsCode
<1>12. UsesStored(p)' /\ UsesNamed'
  <2>1. \A t \in Services : Joined(t)' => Joined(t) /\ address'[t][1] = address[t][1]
    <3>1. 1 \in Stages /\ (stage[p] > 1 => 1 # stage[p])
      BY DEF Stages
    <3> QED
      BY <1>1, <1>3, <1>4, <3>1 DEF Joined
  <2>2. \A t \in Services : \A i \in NamedStages :
          Holds(t, i)' => Holds(t, i) /\ address'[t][i] = address[t][i]
    <3>1. \A i \in NamedStages : i \in Stages /\ (stage[p] > i => i # stage[p])
      BY <1>1 DEF Stages, NamedStages
    <3> QED
      BY <1>1, <1>3, <1>4, <3>1 DEF Holds
  <2> QED
    BY <1>5, <1>7, <2>1, <2>2, UsesStay DEF OneChain
<1> QED
  BY <1>3, <1>6, <1>11, <1>12 DEF OneChain

\* Steps within a stage by which nobody joins.
LEMMA StepOneChain ==
  ASSUME IInv, NEW p \in Services, OneChain(p), NEW x,
         step' = [step EXCEPT ![p] = x], x \notin {"waiting", "storing"},
         step[p] # "storing",
         UNCHANGED <<chain, stored, stage, address>>, Ledger(p)', Sending(p)'
  PROVE  OneChain(p)'
<1>1. /\ Roles(p)' /\ step'[p] = x
      /\ \A t \in Services : t # p => step'[t] = step[t]
  BY GoesOn DEF OneChain
<1>2. Registrar(p)' = Registrar(p)
  BY <1>1 DEF Registrar
<1>3. \A t \in Services : Joined(t)' => Joined(t) /\ address'[t][1] = address[t][1]
  BY <1>1 DEF Joined
<1>4. \A t \in Services : \A i \in NamedStages :
        Holds(t, i)' => Holds(t, i) /\ address'[t][i] = address[t][i]
  BY <1>1 DEF Holds
<1>5. UsesStored(p)' /\ UsesNamed'
  BY <1>2, <1>3, <1>4, UsesStay DEF OneChain
<1> QED
  BY <1>1, <1>5 DEF OneChain

LEMMA RefusedOneChain ==
  ASSUME IInv, NEW p \in Services, OneChain(p), InstallRefused(p)
  PROVE  OneChain(p)'
<1>1. /\ step[p] # "storing" /\ step' = [step EXCEPT ![p] = "ended"]
      /\ UNCHANGED <<net, nonce, stored, stage, address>>
  BY DEF InstallRefused, NeedsContract, Go
<1>2. step'[p] = "ended" /\ nonce'[p] \in Nat
  BY <1>1 DEF IInv, Types, OneChain, Sending
<1>3. Sending(p)'
  BY <1>2, NothingSent
<1>4. Registrar(p)' = Registrar(p)
  BY <1>1, <1>2 DEF Registrar
<1>5. Ledger(p)'
  BY <1>1, <1>4, LedgerStays DEF OneChain
<1>6. UNCHANGED <<chain, stored, stage, address>> /\ "ended" \notin {"waiting", "storing"}
  BY <1>1 DEF net
<1> QED
  BY <1>1, <1>3, <1>5, <1>6, StepOneChain

LEMMA InstalledOneChain ==
  ASSUME IInv, NEW p \in Services, OneChain(p), Installed(p), ~fileLost', ~chainLost
  PROVE  OneChain(p)'
<1> DEFINE a == address[p][stage[p]]
           n == nonce[p]
<1>1. /\ stage[p] \in Stages /\ step[p] = "installing" /\ HasContract(p, a)
      /\ UNCHANGED <<net, view>>
  BY DEF Installed, IInv, Own, InstallsItsStage
<1>2. n \in 1 .. view[p] /\ IsCode(chain[n], a) /\ n \in Nat /\ view[p] \in Nat
  <2>1. PICK j \in 1 .. view[p] : IsCode(chain[j], a)
    BY <1>1, ContractIsCode DEF CodeIn
  <2>2. j \in 1 .. Len(chain) /\ view[p] \in Nat
    BY PositionsAre
  <2>3. j = n
    BY <1>1, <2>1, <2>2 DEF OneChain, Sending
  <2> QED
    BY <2>1, <2>2, <2>3
<1>3. n <= view[p]
  BY <1>2
<1>4. CASE stage[p] = 1
  <2>1. Store(p, a) /\ UNCHANGED nonce
    BY <1>4 DEF Installed
  <2>2. stored[p] = Zero
    BY <1>1, <1>4 DEF Installed, IInv, Own, StoredIsRegistrar
  <2> HIDE DEF a
  <2> QED
    BY <1>1, <1>3, <1>4, <2>1, <2>2, StoreOneChain
<1>5. CASE stage[p] # 1
  <2>1. /\ step' = [step EXCEPT ![p] = "telling"]
        /\ nonce' = [nonce EXCEPT ![p] = @ + 1]
        /\ UNCHANGED <<stored, stage, address>>
    BY <1>5 DEF Installed, Go
  <2>2. /\ step'[p] = "telling" /\ nonce'[p] = n + 1
        /\ chain' = chain /\ pool' = pool /\ Known' = Known
    BY <1>1, <2>1, SameKnown DEF net, IInv, Types
  <2>3. Registrar(p)' = Registrar(p)
    BY <1>1, <2>1, <2>2 DEF Registrar
  <2>4. Ledger(p)'
    BY <1>1, <2>3, LedgerStays DEF OneChain
  <2>5. Sending(p)'
    <3>1. n + 1 \in Nat /\ n + 1 >= 1 /\ (n + 1) - 1 <= view[p]
      BY <1>2
    <3>2. \A x \in Known : ~Tells(x, a)
      BY <1>1 DEF OneChain, Sending
    <3>3. ASSUME NEW j \in 1 .. (n + 1) - 1 PROVE ~NamesStage(chain[j], stage[p])
      <4>1. CASE j = n
        BY <1>2, <4>1 DEF IsCode, NamesStage, Told
      <4>2. CASE j # n
        <5>1. j \in 1 .. n - 1
          BY <1>2, <4>2
        <5> QED
          BY <1>1, <1>5, <5>1 DEF OneChain, Sending
      <4> QED
        BY <4>1, <4>2
    <3> HIDE DEF n
    <3> QED
      BY <1>1, <2>1, <2>2, <3>1, <3>2, <3>3 DEF Sending, Tells, Told, NamesStage
  <2> QED
    BY <1>1, <2>1, <2>2, <2>4, <2>5, StepOneChain
<1> QED
  BY <1>4, <1>5

LEMMA StoredOneChain ==
  ASSUME IInv, NEW p \in Services, OneChain(p), Stored(p), ~fileLost'
  PROVE  OneChain(p)'
<1> DEFINE a == address[p][1]
<1>1. /\ step[p] = "storing" /\ stage[p] = 1 /\ stage[p] \in Stages
      /\ CodeIn(chain, view[p], a)
      /\ NextStage(p, a)
      /\ stored' = [stored EXCEPT ![p] = a]
      /\ UNCHANGED <<net, view, nonce>>
      /\ nonce[p] <= view[p]
  BY DEF Stored, IInv, Own, InstallsItsStage, OneChain, Sending
<1>2. step'[p] = "find" /\ stored'[p] = a
  BY <1>1 DEF NextStage, Go, IInv, Types
<1>3. Registrar(p) = a /\ Registrar(p)' = a /\ a # Zero
  BY <1>1, <1>2, CodeIsSent DEF Registrar
<1> HIDE DEF a
<1> QED
  BY <1>1, <1>3, NextOneChain

LEMMA TellOneChain ==
  ASSUME IInv, NEW p \in Services, OneChain(p), Tell(p)
  PROVE  OneChain(p)'
<1> DEFINE a == address[p][stage[p]]
           n == nonce[p]
           tx == SetAddress(p, address[p][1], Names[stage[p]], a)
<1>1. /\ step[p] = "telling" /\ stage[p] \in Stages /\ stage[p] # 1
      /\ CodeIn(chain, view[p], a)
      /\ Admit(p, n - 1, tx)
      /\ step' = [step EXCEPT ![p] = "naming"]
      /\ UNCHANGED <<view, nonce, stored, stage, address>>
  BY DEF Tell, Go, IInv, Own, InstallsItsStage
<1>2. address[p][1] = Registrar(p) /\ Registrar(p) # Zero
  BY <1>1 DEF OneChain, UsesStored, Joined, Stages
<1>3. a \in Nat /\ address[p][1] \in Nat
  <2>1. CodeIn(chain, view[p], address[p][1])
    BY <1>1 DEF IInv, Own, HasItsContracts, Stages
  <2> QED
    BY <1>1, <2>1, CodeIsSent
<1>4. /\ tx \in Transactions /\ tx.from = p /\ tx.registrar = Registrar(p)
      /\ tx.name = Names[stage[p]] /\ tx.address = a /\ Told(tx)
  BY <1>1, <1>2, <1>3 DEF SetAddress, Transactions, Told
<1> HIDE DEF tx
<1>5. step'[p] = "naming"
  BY <1>1 DEF IInv, Types
<1>6. Registrar(p)' = Registrar(p)
  BY <1>1, <1>5 DEF Registrar
<1>7. /\ UNCHANGED chain
      /\ \A x \in pool'[p] : x \in pool[p] \/ (x = tx /\ n - 1 = Len(chain))
  BY <1>1, <1>4, AdmitKnown, AdmitIs DEF OneChain
<1>8. /\ n \in Nat /\ n >= 1 /\ n - 1 <= view[p]
      /\ \A x \in Known : ~Tells(x, a)
      /\ \A j \in 1 .. n - 1 : ~NamesStage(chain[j], stage[p])
  BY <1>1 DEF OneChain, Sending
<1>9. CodeIn(chain, Len(chain), a)
  BY <1>1, CodeSynced, PositionsAre
<1>10. n - 1 = Len(chain) =>
         \A k \in 1 .. Len(chain) : Told(chain[k]) => chain[k].name # tx.name
  BY <1>4, <1>8 DEF NamesStage
<1>11. Ledger(p)'
  BY <1>1, <1>2, <1>4, <1>6, <1>9, <1>10, AdmitLedger DEF OneChain
<1>12. Sending(p)'
  <2>1. \A j \in 1 .. Len(chain) : ~Tells(chain[j], a)
    BY <1>8 DEF Known
  <2>2. \A x \in pool[p] : ~Tells(x, a)
    BY <1>8 DEF Known
  <2>3. \A x \in pool'[p] : Tells(x, a) => Len(chain) = n - 1 /\ NamesStage(x, stage[p])
    BY <1>4, <1>7, <2>2 DEF NamesStage
  <2> HIDE DEF n
  <2>4. nonce'[p] = n /\ view'[p] = view[p] /\ stage'[p] = stage[p] /\ address'[p] = address[p]
    BY <1>1 DEF n
  <2> QED
    BY <1>5, <1>7, <1>8, <2>1, <2>3, <2>4 DEF Sending, Tells, Told, NamesStage
<1>13. /\ UNCHANGED <<chain, stored, stage, address>> /\ "naming" \notin {"waiting", "storing"}
       /\ step[p] # "storing"
  BY <1>1, <1>7
<1> QED
  BY <1>1, <1>11, <1>12, <1>13, StepOneChain

LEMMA NamedOneChain ==
  ASSUME IInv, NEW p \in Services, OneChain(p), Named(p)
  PROVE  OneChain(p)'
<1> DEFINE a == address[p][stage[p]]
<1>1. /\ step[p] = "naming" /\ stage[p] \in Stages /\ stage[p] # 1
      /\ NextStage(p, a)
      /\ UNCHANGED <<net, view, nonce, stored>>
  BY DEF Named, IInv, Own, InstallsItsStage
<1>2. PICK k \in 1 .. view[p] : Tells(chain[k], a)
  BY DEF Named, Seen, Tells, Told
<1>3. k \in 1 .. Len(chain) /\ k <= view[p]
  BY PositionsAre
<1>4. k = nonce[p] /\ NamesStage(chain[k], stage[p]) /\ chain[k].address = a
  BY <1>1, <1>2, <1>3 DEF OneChain, Sending, Tells
<1>5. step'[p] = "find"
  BY <1>1 DEF NextStage, Go, IInv, Types
<1>6. Registrar(p)' = Registrar(p)
  BY <1>1, <1>5 DEF Registrar
<1> HIDE DEF a
<1> QED
  BY <1>1, <1>3, <1>4, <1>6, NextOneChain

LEMMA MineOneChain ==
  ASSUME IInv, NEW p \in Services, OneChain(p), Mine(p)
  PROVE  OneChain(p)'
<1>1. PICK tx \in pool[p] : chain' = Append(chain, tx)
  BY DEF Mine
<1>2. /\ chain \in Seq(Transactions) /\ tx \in Transactions /\ tx \in Known
      /\ pool' = [pool EXCEPT ![p] = {}] /\ pool \in [Services -> SUBSET Transactions]
      /\ UNCHANGED <<view, nonce, stored, stage, step, address>>
  BY DEF Mine, IInv, Types, progress, Known
<1>3. /\ Len(chain) \in Nat /\ Len(chain') = Len(chain) + 1
      /\ \A j \in 1 .. Len(chain) : j \in 1 .. Len(chain') /\ chain'[j] = chain[j]
      /\ chain'[Len(chain) + 1] = tx
      /\ \A j \in 1 .. Len(chain') : j = Len(chain) + 1 \/ j \in 1 .. Len(chain)
  BY <1>1, <1>2
<1>4. Ledger(p)'
  BY MineLedger DEF OneChain
<1>5. Roles(p)'
  BY <1>2 DEF OneChain, Roles
<1>6. Registrar(p)' = Registrar(p)
  BY <1>2 DEF Registrar
<1>7. UsesStored(p)'
  BY <1>2, <1>6 DEF OneChain, UsesStored, Joined
<1>8. UsesNamed'
  <2> SUFFICES ASSUME NEW t \in Services, NEW i \in NamedStages, Holds(t, i)
               PROVE  \E k \in 1 .. Len(chain') :
                        NamesStage(chain'[k], i) /\ chain'[k].address = address[t][i]
    BY <1>2 DEF UsesNamed, Holds, NamesStage, Told
  <2>1. PICK k \in 1 .. Len(chain) : NamesStage(chain[k], i) /\ chain[k].address = address[t][i]
    BY DEF OneChain, UsesNamed
  <2> QED
    BY <1>3, <2>1
<1>9. Sending(p)'
  <2> DEFINE n == nonce[p]
             a == address[p][stage[p]]
  <2>1. pool'[p] = {} /\ view[p] \in Nat /\ view[p] <= Len(chain)
    BY <1>2, PositionsAre
  <2>2. Sending(p) /\ n \in Nat
    BY DEF OneChain, Sending
  <2>3. ASSUME step[p] = "installing"
        PROVE  \A j \in 1 .. Len(chain') : IsCode(chain'[j], a) => j = n
    <3>1. /\ \A j \in 1 .. Len(chain) : IsCode(chain[j], a) => j = n
          /\ IsCode(tx, a) => Len(chain) = n - 1
      BY <2>2, <2>3 DEF Sending
    <3>2. IsCode(tx, a) => Len(chain) + 1 = n
      BY <1>3, <2>2, <3>1
    <3> HIDE DEF a, n
    <3> QED
      BY <1>3, <3>1, <3>2
  <2>4. ASSUME step[p] \in {"installing", "telling"}
        PROVE  /\ \A x \in Known' : ~Tells(x, a)
               /\ stage[p] # 1 => \A j \in 1 .. n - 1 : ~NamesStage(chain'[j], stage[p])
    <3>1. \A x \in Known : ~Tells(x, a)
      BY <2>2, <2>4 DEF Sending
    <3>2. \A j \in 1 .. Len(chain') : chain'[j] \in Known
      <4>1. \A j \in 1 .. Len(chain) : chain[j] \in Known
        BY DEF Known
      <4> QED
        BY <1>2, <1>3, <4>1
    <3>3. \A t \in Services : \A x \in pool'[t] : x \in Known
      BY <1>2 DEF Known
    <3>4. Known' \subseteq Known
      BY <3>2, <3>3 DEF Known
    <3>5. /\ n - 1 <= view[p]
          /\ stage[p] # 1 => \A j \in 1 .. n - 1 : ~NamesStage(chain[j], stage[p])
      BY <2>2, <2>4 DEF Sending
    <3>6. \A j \in 1 .. n - 1 : j \in 1 .. Len(chain)
      BY <1>3, <2>1, <2>2, <3>5
    <3> HIDE DEF a, n
    <3> QED
      BY <1>3, <3>1, <3>4, <3>5, <3>6
  <2>5. ASSUME step[p] = "naming"
        PROVE  \A j \in 1 .. Len(chain') :
                 Tells(chain'[j], a) => j = n /\ NamesStage(chain'[j], stage[p])
    <3>1. /\ \A j \in 1 .. Len(chain) :
               Tells(chain[j], a) => j = n /\ NamesStage(chain[j], stage[p])
          /\ Tells(tx, a) => Len(chain) = n - 1 /\ NamesStage(tx, stage[p])
      BY <2>2, <2>5 DEF Sending
    <3>2. Tells(tx, a) => Len(chain) + 1 = n /\ NamesStage(tx, stage[p])
      BY <1>3, <2>2, <3>1
    <3> HIDE DEF a, n
    <3> QED
      BY <1>3, <3>1, <3>2
  <2> QED
    BY <1>2, <2>1, <2>2, <2>3, <2>4, <2>5 DEF Sending, Tells, Told, NamesStage, IsCode
<1> QED
  BY <1>4, <1>5, <1>7, <1>8, <1>9 DEF OneChain

LEMMA SyncOneChain ==
  ASSUME IInv, NEW p \in Services, OneChain(p), NEW s \in Services, Sync(s)
  PROVE  OneChain(p)'
<1>1. PICK n \in view[s] + 1 .. Len(chain) : view' = [view EXCEPT ![s] = n]
  BY DEF Sync
<1>2. UNCHANGED <<net, nonce, stored, stage, step, address>> /\ UNCHANGED chain
  BY DEF Sync, progress, net
<1>3. view[p] \in Nat /\ view'[p] \in Nat /\ view[p] <= view'[p]
  BY <1>1 DEF IInv, Types
<1>4. Registrar(p)' = Registrar(p)
  BY <1>2 DEF Registrar
<1>5. Roles(p)' /\ Ledger(p)'
  BY <1>2, <1>4, LedgerStays DEF OneChain, Roles
<1>6. Sending(p)'
  BY <1>2, <1>3, SendingStays DEF OneChain
<1>7. UsesStored(p)' /\ UsesNamed'
  <2>1. \A t \in Services : Joined(t)' => Joined(t) /\ address'[t][1] = address[t][1]
    BY <1>2 DEF Joined
  <2>2. \A t \in Services : \A i \in NamedStages :
          Holds(t, i)' => Holds(t, i) /\ address'[t][i] = address[t][i]
    BY <1>2 DEF Holds
  <2> QED
    BY <1>2, <1>4, <2>1, <2>2, UsesStay DEF OneChain
<1> QED
  BY <1>5, <1>6, <1>7 DEF OneChain

\* A service is killed, but not while it rewrites the file.
LEMMA CrashOneChain ==
  ASSUME IInv, NEW p \in Services, OneChain(p), NEW s \in Services, Crash(s), ~fileLost'
  PROVE  OneChain(p)'
<1>1. /\ step[s] # "storing"
      /\ stage' = [stage EXCEPT ![s] = 1]
      /\ step' = [step EXCEPT ![s] = "starting"]
      /\ address' = [address EXCEPT ![s] = NoAddresses]
      /\ nonce' = [nonce EXCEPT ![s] = 0]
      /\ pool' = pool \/ pool' = [pool EXCEPT ![s] = {}]
      /\ UNCHANGED <<chain, installs, account, view, stored>>
  BY DEF Crash, Killed, Go, PoolMayBeLost
<1>2. /\ Roles(p)' /\ step'[s] = "starting"
      /\ \A t \in Services : t # s => step'[t] = step[t]
  BY <1>1, GoesOn DEF OneChain
<1>3. /\ stage'[s] = 1 /\ nonce'[s] = 0
      /\ \A t \in Services :
           t # s => address'[t] = address[t] /\ stage'[t] = stage[t] /\ nonce'[t] = nonce[t]
  BY <1>1 DEF IInv, Types
<1>4. Registrar(p)' = Registrar(p)
  BY <1>1, <1>2, <1>3 DEF Registrar
<1>5. Ledger(p)'
  BY <1>1, <1>4, LossLedger DEF OneChain
<1>6. Sending(p)'
  <2>1. CASE s = p
    BY <1>2, <1>3, <2>1, NothingSent
  <2>2. CASE s # p
    <3>1. pool[s] = {} /\ pool \in [Services -> SUBSET Transactions]
      BY <2>2 DEF OneChain, Ledger, Alone, IInv, Types
    <3>2. pool' = pool
      BY <1>1, <3>1
    <3>3. UNCHANGED net
      BY <1>1, <3>2 DEF net
    <3>4. view[p] \in Nat /\ view'[p] = view[p] /\ view[p] <= view'[p]
      BY <1>1, PositionsAre
    <3> QED
      BY <1>2, <1>3, <2>2, <3>3, <3>4, SendingStays DEF OneChain
  <2> QED
    BY <2>1, <2>2
<1>7. UsesStored(p)' /\ UsesNamed'
  <2>1. \A t \in Services : Joined(t)' => Joined(t) /\ address'[t][1] = address[t][1]
    BY <1>2, <1>3 DEF Joined
  <2>2. \A t \in Services : \A i \in NamedStages :
          Holds(t, i)' => Holds(t, i) /\ address'[t][i] = address[t][i]
    BY <1>2, <1>3 DEF Holds, NamedStages
  <2> QED
    BY <1>1, <1>4, <2>1, <2>2, UsesStay DEF OneChain
<1> QED
  BY <1>2, <1>5, <1>6, <1>7 DEF OneChain

-------------------------------------------------------------------------------
(* The steps of a secondary.                                               *)

LEMMA SecondaryOneChain ==
  ASSUME IInv, NEW p \in Services, OneChain(p), NEW s \in Services, s # p, NEW a,
         stage[s] \in Stages,
         address' = [address EXCEPT ![s][stage[s]] = a],
         \/ stage' = stage /\ step' = [step EXCEPT ![s] = "waiting"]
         \/ stage' = [stage EXCEPT ![s] = @ + 1] /\ step' = [step EXCEPT ![s] = "find"],
         stage[s] = 1 => Registrar(p) # Zero /\ a = Registrar(p),
         stage[s] # 1 =>
           \E k \in 1 .. Len(chain) : NamesStage(chain[k], stage[s]) /\ chain[k].address = a,
         UNCHANGED <<net, view, nonce, stored>>
  PROVE  OneChain(p)'
<1>1. /\ Roles(p)' /\ (stage' # stage => step'[s] = "find")
      /\ \A t \in Services : t # s => step'[t] = step[t]
  BY GoesOn DEF OneChain
<1>2. /\ step'[p] = step[p] /\ stage'[p] = stage[p] /\ address'[p] = address[p]
      /\ nonce'[p] = nonce[p] /\ chain' = chain
  BY <1>1 DEF IInv, Types, net
<1>3. Registrar(p)' = Registrar(p)
  BY <1>2 DEF Registrar
<1>4. Ledger(p)'
  BY <1>3, LedgerStays DEF OneChain
<1>5. view[p] \in Nat /\ view'[p] = view[p] /\ view[p] <= view'[p]
  BY PositionsAre
<1>6. Sending(p)'
  BY <1>2, <1>5, SendingStays DEF OneChain
<1>7. stage' = stage \/ stage' = [stage EXCEPT ![s] = @ + 1]
  OBVIOUS
<1>8. stage' # stage => step'[s] # "waiting"
  BY <1>1
<1>9. UsesStored(p)' /\ UsesNamed'
  BY <1>1, <1>2, <1>3, <1>7, <1>8, UsesGrow DEF OneChain
<1> QED
  BY <1>1, <1>4, <1>6, <1>9 DEF OneChain

LEMMA ConfiguredOneChain ==
  ASSUME IInv, NEW p, Primaries = {p}, OneChain(p), NEW s \in Services, s # p, Configured(s)
  PROVE  OneChain(p)'
<1>1. p \in Services
  BY PrimaryIs
<1>2. /\ ServesConfiguration(p)
      /\ address' = [address EXCEPT ![s][1] = address[p][1]]
      /\ stage[s] = 1 /\ 1 \in Stages
      /\ step' = [step EXCEPT ![s] = "waiting"]
      /\ UNCHANGED <<net, view, nonce, stored, stage>>
  BY DEF Configured, Go, Stages
<1>3. stage[p] > 1
  BY <1>2, FourStages DEF ServesConfiguration
<1>4. Registrar(p) # Zero /\ address[p][1] = Registrar(p)
  BY <1>1, <1>3 DEF OneChain, UsesStored, Joined
<1>5. address' = [address EXCEPT ![s][stage[s]] = address[p][1]]
  BY <1>2
<1> QED
  BY <1>1, <1>2, <1>4, <1>5, SecondaryOneChain

LEMMA ResolvedOneChain ==
  ASSUME IInv, NEW p \in Services, OneChain(p), NEW s \in Services, s # p, Resolved(s)
  PROVE  OneChain(p)'
<1>1. /\ stage[s] \in NamedStages /\ stage[s] \in Stages /\ stage[s] # 1
      /\ Candidate(s) # Zero
      /\ address' = [address EXCEPT ![s][stage[s]] = Candidate(s)]
      /\ step' = [step EXCEPT ![s] = "waiting"]
      /\ UNCHANGED <<net, view, nonce, stored, stage>>
  BY FourStages DEF Resolved, Go, Stages, NamedStages
<1>2. PICK k \in 1 .. view[s] :
        NamesStage(chain[k], stage[s]) /\ Candidate(s) = chain[k].address
  BY <1>1, CandidateNamed
<1>3. k \in 1 .. Len(chain)
  BY PositionsAre
<1> HIDE DEF Candidate
<1> QED
  BY <1>1, <1>2, <1>3, SecondaryOneChain

LEMMA AttachedOneChain ==
  ASSUME IInv, NEW p \in Services, OneChain(p), NEW s \in Services, s # p, Attached(s)
  PROVE  OneChain(p)'
<1> DEFINE a == address[s][stage[s]]
<1>1. /\ step[s] = "waiting" /\ stage[s] \in Stages
      /\ step' = [step EXCEPT ![s] = "find"]
      /\ stage' = [stage EXCEPT ![s] = @ + 1]
      /\ address' = [address EXCEPT ![s][stage[s]] = a]
      /\ UNCHANGED <<net, view, nonce, stored>>
  BY DEF Attached, NextStage, Go, IInv, Own, InstallsItsStage
<1>2. stage[s] = 1 => Registrar(p) # Zero /\ a = Registrar(p)
  BY <1>1 DEF OneChain, UsesStored, Joined
<1>3. stage[s] # 1 =>
        \E k \in 1 .. Len(chain) : NamesStage(chain[k], stage[s]) /\ chain[k].address = a
  <2>1. stage[s] # 1 => stage[s] \in NamedStages
    BY <1>1 DEF Stages, NamedStages
  <2> QED
    BY <1>1, <2>1 DEF OneChain, UsesNamed, Holds
<1> HIDE DEF a
<1> QED
  BY <1>1, <1>2, <1>3, SecondaryOneChain

LEMMA OneChainStays ==
  ASSUME IInv, NEW p, Primaries = {p}, OneChain(p), ~chainLost, NothingWasLost', [Next]_vars
  PROVE  OneChain(p)'
<1>1. p \in Services /\ \A s \in Services : s # p => s \notin Primaries
  BY PrimaryIs
<1>2. ~fileLost' /\ ~chainLost'
  BY DEF NothingWasLost
<1>3. CASE UNCHANGED vars
  <2>1. /\ UNCHANGED <<net, view, nonce, stored, stage, step, address>>
        /\ UNCHANGED chain
    BY <1>3 DEF vars, progress, net
  <2>2. Registrar(p)' = Registrar(p) /\ Roles(p)'
    BY <2>1 DEF Registrar, OneChain, Roles
  <2>3. view[p] \in Nat /\ view'[p] \in Nat /\ view[p] <= view'[p]
    BY <1>1, <2>1, PositionsAre
  <2>4. Ledger(p)' /\ Sending(p)'
    BY <1>1, <2>1, <2>2, <2>3, LedgerStays, SendingStays DEF OneChain
  <2>5. UsesStored(p)' /\ UsesNamed'
    BY <2>1, <2>2 DEF OneChain, UsesStored, UsesNamed, Joined, Holds, NamesStage, Told
  <2> QED
    BY <2>2, <2>4, <2>5 DEF OneChain
<1>4. CASE Next
  <2>1. PICK s \in Services :
          ServiceStep(s) \/ Mine(s) \/ Sync(s) \/ Crash(s) \/ NodeLosesChain(s)
    BY <1>4 DEF Next
  <2>2. CASE Start(s) \/ Sync(s) \/ Crash(s)
    BY <1>1, <1>2, <2>2, StartOneChain, SyncOneChain, CrashOneChain
  <2>3. ~NodeLosesChain(s)
    BY <1>2 DEF NodeLosesChain
  <2>4. CASE s = p
    <3>1. ~Configured(s) /\ ~Resolved(s)
      BY <2>4, PrimaryIs DEF Configured, Resolved
    <3>2. ~Attached(s)
      BY <2>4 DEF Attached, OneChain, Roles
    <3>3. CASE Found(s) \/ InstallContract(s) \/ InstallRefused(s) \/ Installed(s)
      BY <1>1, <1>2, <2>4, <3>3, FoundOneChain, InstallContractOneChain, RefusedOneChain,
        InstalledOneChain
    <3>4. CASE Stored(s) \/ Tell(s) \/ Named(s) \/ Mine(s)
      BY <1>1, <1>2, <2>4, <3>4, StoredOneChain, TellOneChain, NamedOneChain, MineOneChain
    <3> QED
      BY <2>1, <2>2, <2>3, <3>1, <3>2, <3>3, <3>4 DEF ServiceStep
  <2>5. CASE s # p
    <3>1. step[s] \in {"starting", "find", "waiting"} /\ pool[s] = {} /\ s \notin Primaries
      BY <1>1, <2>5 DEF OneChain, Roles, Ledger, Alone
    <3>2. ~Mine(s) /\ ~Found(s) /\ ~InstallContract(s) /\ ~InstallRefused(s)
      BY <3>1 DEF Mine, Found, InstallContract, InstallRefused, NeedsContract
    <3>3. ~Installed(s) /\ ~Stored(s) /\ ~Tell(s) /\ ~Named(s)
      BY <3>1 DEF Installed, Stored, Tell, Named
    <3>4. CASE Configured(s) \/ Resolved(s) \/ Attached(s)
      BY <1>1, <2>5, <3>4, ConfiguredOneChain, ResolvedOneChain, AttachedOneChain
    <3> QED
      BY <2>1, <2>2, <2>3, <3>2, <3>3, <3>4 DEF ServiceStep
  <2> QED
    BY <2>4, <2>5
<1> QED
  BY <1>3, <1>4

LEMMA OneChainAtFirst ==
  ASSUME Init, NEW p, Primaries = {p}
  PROVE  OneChain(p)
<1>1. p \in Services
  BY PrimaryIs
<1>2. /\ chain = <<>> /\ Len(chain) = 0 /\ \A s \in Services : pool[s] = {}
      /\ \A s \in Services : step[s] = "starting" /\ stage[s] = 1
      /\ account[p] = 0 /\ nonce[p] = 0
  BY <1>1 DEF Init
<1>3. Known = {}
  BY <1>2 DEF Known
<1>4. Roles(p) /\ Ledger(p)
  BY <1>1, <1>2, <1>3 DEF Roles, Ledger, Alone, OneRegistrar, CodeBefore, NamedOnce
<1>5. Sending(p)
  BY <1>1, <1>2 DEF Sending
<1>6. UsesStored(p) /\ UsesNamed
  BY <1>2 DEF UsesStored, UsesNamed, Joined, Holds, NamedStages
<1> QED
  BY <1>4, <1>5, <1>6 DEF OneChain

\* What was lost stays lost.
LEMMA LossesStay ==
  ASSUME [Next]_vars, NothingWasLost'
  PROVE  NothingWasLost
<1>1. ~fileLost' /\ ~chainLost'
  BY DEF NothingWasLost
<1>2. fileLost => fileLost'
  <2>1. CASE UNCHANGED vars
    BY <2>1 DEF vars, history
  <2>2. CASE Next
    <3>1. PICK s \in Services :
            ServiceStep(s) \/ Mine(s) \/ Sync(s) \/ Crash(s) \/ NodeLosesChain(s)
      BY <2>2 DEF Next
    <3>2. CASE Found(s) \/ Installed(s) \/ Stored(s)
      BY <3>2 DEF Found, Installed, Stored, Store
    <3>3. CASE Crash(s) \/ NodeLosesChain(s)
      BY <3>3 DEF Crash, NodeLosesChain, Killed
    <3>4. CASE Start(s) \/ InstallContract(s) \/ InstallRefused(s) \/ Tell(s)
      BY <3>4 DEF Start, InstallContract, InstallRefused, Tell, history
    <3>5. CASE Named(s) \/ Configured(s) \/ Resolved(s) \/ Attached(s) \/ Mine(s) \/ Sync(s)
      BY <3>5 DEF Named, Configured, Resolved, Attached, Mine, Sync, history
    <3> QED
      BY <3>1, <3>2, <3>3, <3>4, <3>5 DEF ServiceStep
  <2> QED
    BY <2>1, <2>2
<1>3. chainLost => chainLost'
  <2>1. CASE UNCHANGED vars
    BY <2>1 DEF vars, history
  <2>2. CASE Next
    <3>1. PICK s \in Services :
            ServiceStep(s) \/ Mine(s) \/ Sync(s) \/ Crash(s) \/ NodeLosesChain(s)
      BY <2>2 DEF Next
    <3>2. CASE Found(s) \/ Installed(s) \/ Stored(s) \/ Crash(s) \/ NodeLosesChain(s)
      BY <3>2 DEF Found, Installed, Stored, Crash, NodeLosesChain
    <3>3. CASE Start(s) \/ InstallContract(s) \/ InstallRefused(s) \/ Tell(s)
      BY <3>3 DEF Start, InstallContract, InstallRefused, Tell, history
    <3>4. CASE Named(s) \/ Configured(s) \/ Resolved(s) \/ Attached(s) \/ Mine(s) \/ Sync(s)
      BY <3>4 DEF Named, Configured, Resolved, Attached, Mine, Sync, history
    <3> QED
      BY <3>1, <3>2, <3>3, <3>4 DEF ServiceStep
  <2> QED
    BY <2>1, <2>2
<1>4. ~fileLost /\ ~chainLost
  BY <1>1, <1>2, <1>3
<1> QED
  BY <1>4 DEF NothingWasLost

LEMMA RowsAtFirst == Init => Rows
<1>1. NoAddresses = [i \in Stages |-> NoAddresses[i]]
  BY DEF NoAddresses, Stages
<1> QED
  BY <1>1 DEF Init, Rows

LEMMA RowsStay ==
  ASSUME IInv, Rows, [Next]_vars
  PROVE  Rows'
<1>1. ASSUME NEW s \in Services, NEW i, NEW a, address' = [address EXCEPT ![s][i] = a]
      PROVE  Rows'
  <2>1. \A t \in Services : address'[t] = IF t = s THEN [address[s] EXCEPT ![i] = a] ELSE address[t]
    BY <1>1 DEF IInv, Types
  <2>2. DOMAIN address[s] = Stages
    BY DEF IInv, Types
  <2>3. [address[s] EXCEPT ![i] = a] = [j \in Stages |-> [address[s] EXCEPT ![i] = a][j]]
    BY <2>2
  <2> QED
    BY <2>1, <2>3 DEF Rows
<1>2. ASSUME address' = address PROVE Rows'
  BY <1>2 DEF Rows
<1>3. ASSUME NEW s \in Services, address' = [address EXCEPT ![s] = NoAddresses] PROVE Rows'
  <2>1. NoAddresses = [i \in Stages |-> NoAddresses[i]]
    BY DEF NoAddresses, Stages
  <2>2. \A t \in Services : address'[t] = IF t = s THEN NoAddresses ELSE address[t]
    BY <1>3 DEF IInv, Types
  <2> QED
    BY <2>1, <2>2 DEF Rows
<1>4. CASE UNCHANGED vars
  BY <1>2, <1>4 DEF vars, progress
<1>5. CASE Next
  <2>1. PICK s \in Services :
          ServiceStep(s) \/ Mine(s) \/ Sync(s) \/ Crash(s) \/ NodeLosesChain(s)
    BY <1>5 DEF Next
  <2>2. /\ \A a : NextStage(s, a) => \E i : address' = [address EXCEPT ![s][i] = a]
        /\ \A a : Store(s, a) => \E i : address' = [address EXCEPT ![s][i] = a]
    BY DEF NextStage, Store
  <2>3. CASE Found(s) \/ Stored(s) \/ Named(s) \/ Attached(s)
    <3>1. \E i, a : address' = [address EXCEPT ![s][i] = a]
      BY <2>2, <2>3 DEF Found, Stored, Named, Attached
    <3> QED
      BY <1>1, <3>1
  <2>4. CASE Installed(s)
    <3>1. address' = address \/ \E i, a : address' = [address EXCEPT ![s][i] = a]
      BY <2>2, <2>4 DEF Installed
    <3> QED
      BY <1>1, <1>2, <3>1
  <2>5. CASE InstallContract(s) \/ Configured(s) \/ Resolved(s)
    <3>1. \E i, a : address' = [address EXCEPT ![s][i] = a]
      BY <2>5 DEF InstallContract, Configured, Resolved
    <3> QED
      BY <1>1, <3>1
  <2>6. CASE Start(s) \/ InstallRefused(s) \/ Tell(s) \/ Mine(s) \/ Sync(s)
    BY <1>2, <2>6 DEF Start, InstallRefused, Tell, Mine, Sync, progress
  <2>7. CASE Crash(s) \/ NodeLosesChain(s)
    BY <1>3, <2>7 DEF Crash, NodeLosesChain, Killed
  <2> QED
    BY <2>1, <2>3, <2>4, <2>5, <2>6, <2>7 DEF ServiceStep
<1> QED
  BY <1>4, <1>5

LEMMA OneInstance ==
  ASSUME NEW p, Primaries = {p}
  PROVE  Spec => [](IInv /\ Rows /\ (NothingWasLost => OneChain(p)))
<1> DEFINE OInv == IInv /\ Rows /\ (NothingWasLost => OneChain(p))
<1>1. Init => OInv
  BY InitInvariant, RowsAtFirst, OneChainAtFirst
<1>2. OInv /\ [Next]_vars => OInv'
  <2> SUFFICES ASSUME OInv, [Next]_vars PROVE OInv'
    OBVIOUS
  <2>1. IInv' /\ Rows'
    BY StepInvariant, RowsStay
  <2>2. ASSUME NothingWasLost' PROVE OneChain(p)'
    <3>1. NothingWasLost /\ ~chainLost
      BY <2>2, LossesStay DEF NothingWasLost
    <3> QED
      BY <2>2, <3>1, OneChainStays
  <2> QED
    BY <2>1, <2>2
<1> HIDE DEF OInv
<1>3. Spec => []OInv
  BY <1>1, <1>2, PTL DEF Spec
<1> QED
  BY <1>3 DEF OInv

\* What a service that serves uses is what the registrar was told.
LEMMA ServesTheNamed ==
  ASSUME NEW p, OneChain(p), NEW s \in Services, Serves(s)
  PROVE  /\ address[s][1] = Registrar(p)
         /\ \A i \in NamedStages :
              \E k \in 1 .. Len(chain) :
                NamesStage(chain[k], i) /\ chain[k].address = address[s][i]
<1>1. stage[s] = 4
  BY FourStages DEF Serves
<1>2. stage[s] > 1 /\ \A i \in NamedStages : stage[s] > i
  BY <1>1 DEF NamedStages
<1> QED
  BY <1>2 DEF OneChain, UsesStored, UsesNamed, Joined, Holds

\* With one primary and any secondaries, all services that serve use the same
\* contracts, however often and wherever they were killed, if that was never
\* while the primary rewrote registrar.properties.
THEOREM OneInstanceForAll ==
  ASSUME NEW p, Primaries = {p}
  PROVE  Spec => []SameInstance
<1>1. IInv /\ Rows /\ (NothingWasLost => OneChain(p)) => SameInstance
  <2> SUFFICES ASSUME IInv, Rows, NothingWasLost, OneChain(p),
                      NEW s \in Services, NEW t \in Services, Serves(s), Serves(t)
               PROVE  address[s] = address[t]
    BY DEF SameInstance
  <2>1. address[s][1] = address[t][1]
    BY ServesTheNamed
  <2>2. ASSUME NEW i \in NamedStages PROVE address[s][i] = address[t][i]
    <3>1. PICK j \in 1 .. Len(chain) :
            NamesStage(chain[j], i) /\ chain[j].address = address[s][i]
      BY ServesTheNamed
    <3>2. PICK k \in 1 .. Len(chain) :
            NamesStage(chain[k], i) /\ chain[k].address = address[t][i]
      BY ServesTheNamed
    <3>3. j = k
      BY <3>1, <3>2 DEF OneChain, Ledger, NamedOnce, NamesStage
    <3> QED
      BY <3>1, <3>2, <3>3
  <2>3. \A i \in Stages : i = 1 \/ i \in NamedStages
    BY DEF Stages, NamedStages
  <2>4. \A i \in Stages : address[s][i] = address[t][i]
    BY <2>1, <2>2, <2>3
  <2> QED
    BY <2>4 DEF Rows
<1> QED
  BY <1>1, OneInstance, PTL

\* With one primary, what the registrar names is what every service that
\* serves uses, so that one to come finds the same contracts.
THEOREM RegistrarNamesAll ==
  ASSUME NEW p, Primaries = {p}
  PROVE  Spec => []RegistrarNamesThem
<1>1. IInv /\ Rows /\ (NothingWasLost => OneChain(p)) => RegistrarNamesThem
  <2> SUFFICES ASSUME IInv, NothingWasLost, OneChain(p),
                      NEW s \in Services, NEW i \in NamedStages, Serves(s)
               PROVE  GetAddress(Len(chain), address[s][1], Names[i]) = address[s][i]
    BY FourStages DEF RegistrarNamesThem, NamedStages
  <2>1. p \in Services /\ Ledger(p) /\ Len(chain) \in 0 .. Len(chain)
    BY PrimaryIs, PositionsAre DEF OneChain
  <2>2. address[s][1] = Registrar(p)
    BY ServesTheNamed
  <2>3. PICK k \in 1 .. Len(chain) : NamesStage(chain[k], i) /\ chain[k].address = address[s][i]
    BY ServesTheNamed
  <2>4. PICK j \in 1 .. Len(chain) :
          /\ NamesStage(chain[j], i)
          /\ GetAddress(Len(chain), Registrar(p), Names[i]) = chain[j].address
    BY <2>1, <2>3, RegistrarSays
  <2>5. j = k
    BY <2>1, <2>3, <2>4 DEF Ledger, NamedOnce, NamesStage
  <2> QED
    BY <2>2, <2>3, <2>4, <2>5
<1> QED
  BY <1>1, OneInstance, PTL

===============================================================================
