------------------------------ MODULE Bootstrap -------------------------------
(***************************************************************************)
(* How payment services come up (PaymentServiceMain): a primary finds or   *)
(* installs three contracts, the global registrar, the registrar of BICs   *)
(* and the payment service, and only then serves its configuration; a      *)
(* secondary takes the registrar's address from there and waits until its  *)
(* own node has all three.                                                 *)
(*                                                                         *)
(* There is one chain, of which a node may have a part only.  A contract's *)
(* address is the number of the transaction that creates it: of those with *)
(* one nonce at most one is mined.  That mined transactions may be taken   *)
(* back is not followed here.                                              *)
(***************************************************************************)
EXTENDS Integers, Sequences, FiniteSets, SequencesExt

CONSTANTS
  Primaries, Secondaries,
  MaxFaults       \* bound on crashes, on writes of the file that fail and on
                  \* nodes that lose their chain, together

ASSUME ServicesAssumption == Primaries \cap Secondaries = {}
ASSUME MaxFaultsAssumption == MaxFaults \in Nat

VARIABLES
  chain,        \* the transactions that were mined
  pool,         \* per service, its transaction that may be mined next, if any
  installs,     \* how many contracts were ever sent
  account,      \* per service, how long the chain was when it got its account
  view,         \* per service, how much of the chain its node has
  nonce,        \* per service, its accountNonce
  stored,       \* per service, registrar.address of registrar.properties
  stage,        \* per service, the contract it is about
  step,         \* and what it does about it
  address,      \* and the contractAddress of its proxies
  faults,
  fileLost,     \* history: a write of registrar.properties failed or was cut off
  chainLost,    \* history: a node has lost its chain
  clean         \* history: no service started with a transaction on its way

net == <<chain, pool, installs, account>>
progress == <<stage, step, address>>
history == <<faults, fileLost, chainLost, clean>>
vars == <<net, view, nonce, stored, progress, history>>

Services == Primaries \cup Secondaries

\* The stages, and what the contract of one is called.
Names == <<"registrar", "bic-registrar", "payment-service">>
Serving == Len(Names) + 1

Zero == 0
NoAddresses == <<Zero, Zero, Zero>>

Install(s, name, id) == [kind |-> "install", from |-> s, name |-> name, id |-> id]
SetAddress(s, registrar, name, a) ==
  [kind |-> "setAddress", from |-> s, registrar |-> registrar, name |-> name, address |-> a]

-------------------------------------------------------------------------------
(* What a service sees of the chain through its node.                      *)

Seen(s) == {chain[i] : i \in 1 .. view[s]}

\* hasContractAtAddress
HasContract(s, a) == \E tx \in Seen(s) : tx.kind = "install" /\ tx.id = a

\* getAddress of a registrar after the first n transactions of the chain.
GetAddress(n, registrar, name) ==
  LET set == {i \in 1 .. n : /\ chain[i].kind = "setAddress"
                             /\ chain[i].registrar = registrar
                             /\ chain[i].name = name}
  IN  IF set = {} THEN Zero ELSE chain[Max(set)].address

\* eth_getTransactionCount of a service's account after the first n.
TransactionCount(s, n) == Cardinality({i \in account[s] + 1 .. n : chain[i].from = s})

\* The address a service has for the contract of its stage: of the file, of
\* the registrar.
Candidate(s) ==
  IF stage[s] = 1 THEN stored[s] ELSE GetAddress(view[s], address[s][1], Names[stage[s]])

Init ==
  /\ chain = <<>> /\ installs = 0
  /\ pool = [s \in Services |-> {}]
  /\ account = [s \in Services |-> 0]
  /\ view = [s \in Services |-> 0]
  /\ nonce = [s \in Services |-> 0]
  /\ stored = [s \in Services |-> Zero]
  /\ stage = [s \in Services |-> 1]
  /\ step = [s \in Services |-> "starting"]
  /\ address = [s \in Services |-> NoAddresses]
  /\ faults = 0 /\ fileLost = FALSE /\ chainLost = FALSE /\ clean = TRUE

-------------------------------------------------------------------------------
(* Transactions.                                                           *)

\* Another transaction has the nonce: one that was mined, whether the node
\* of the service knows or not, or one that waits.
Taken(s, n) == n < TransactionCount(s, Len(chain)) \/ pool[s] # {}

\* eth_sendTransaction: the node takes the transaction unless it knows that
\* the nonce is used up.  Of two with one nonce only one is mined.
Admit(s, n, tx) ==
  /\ n >= TransactionCount(s, view[s])
  /\ \/ /\ n = TransactionCount(s, Len(chain))
        /\ pool' = [pool EXCEPT ![s] = {tx}]
     \/ /\ Taken(s, n)
        /\ UNCHANGED pool
  /\ UNCHANGED <<chain, account>>

Go(s, to) == step' = [step EXCEPT ![s] = to]

NextStage(s, a) ==
  /\ stage' = [stage EXCEPT ![s] = @ + 1]
  /\ Go(s, "find")
  /\ address' = [address EXCEPT ![s][stage[s]] = a]

MayFail == faults < MaxFaults

\* storeRegistrarAddress, first part: opening the file empties it.  If it
\* cannot be opened it stays as it was, with a warning.
Store(s, a) ==
  \/ /\ stored' = [stored EXCEPT ![s] = Zero]
     /\ Go(s, "storing")
     /\ address' = [address EXCEPT ![s][1] = a]
     /\ UNCHANGED <<stage, faults, fileLost>>
  \/ /\ MayFail
     /\ faults' = faults + 1
     /\ fileLost' = TRUE
     /\ NextStage(s, a)
     /\ UNCHANGED stored

-------------------------------------------------------------------------------
(* A primary: Mode.INSTALL                                                 *)

\* Mutant of the next definition: the nonce counts what waits in the pool too.
StartAfterPending(s) ==
  /\ step[s] = "starting"
  /\ Go(s, "find")
  /\ nonce' = [nonce EXCEPT ![s] = TransactionCount(s, view[s]) + Cardinality(pool[s])]
  /\ clean' = (clean /\ ~Taken(s, TransactionCount(s, view[s])))
  /\ UNCHANGED <<net, view, stored, stage, address, faults, fileLost, chainLost>>

\* The nonce is that of the latest block, whatever waits in the pool.
Start(s) ==
  /\ step[s] = "starting"
  /\ Go(s, "find")
  /\ nonce' = [nonce EXCEPT ![s] = TransactionCount(s, view[s])]
  /\ clean' = (clean /\ ~Taken(s, TransactionCount(s, view[s])))
  /\ UNCHANGED <<net, view, stored, stage, address, faults, fileLost, chainLost>>

\* ensureContractInstalled: there is code at the address.
Found(s) ==
  LET a == Candidate(s)
  IN  /\ s \in Primaries /\ stage[s] < Serving /\ step[s] = "find"
      /\ HasContract(s, a)
      /\ IF stage[s] = 1
           THEN Store(s, a)
           ELSE /\ NextStage(s, a)
                /\ UNCHANGED <<stored, faults, fileLost>>
      /\ UNCHANGED <<net, view, nonce, chainLost, clean>>

NeedsContract(s) ==
  /\ s \in Primaries /\ stage[s] < Serving /\ step[s] = "find"
  /\ ~HasContract(s, Candidate(s))

\* Mutant of the next definition: the address is stored before it has code.
InstallAndStore(s) ==
  /\ NeedsContract(s)
  /\ Admit(s, nonce[s], Install(s, Names[stage[s]], installs + 1))
  /\ installs' = installs + 1
  /\ nonce' = [nonce EXCEPT ![s] = @ + 1]
  /\ address' = [address EXCEPT ![s][stage[s]] = installs + 1]
  /\ Go(s, "installing")
  /\ stored' = IF stage[s] = 1 THEN [stored EXCEPT ![s] = installs + 1] ELSE stored
  /\ UNCHANGED <<view, stage, history>>

\* ensureContractInstalled: there is none; newContract.
InstallContract(s) ==
  /\ NeedsContract(s)
  /\ Admit(s, nonce[s], Install(s, Names[stage[s]], installs + 1))
  /\ installs' = installs + 1
  /\ nonce' = [nonce EXCEPT ![s] = @ + 1]
  /\ address' = [address EXCEPT ![s][stage[s]] = installs + 1]
  /\ Go(s, "installing")
  /\ UNCHANGED <<view, stored, stage, history>>

\* The node refuses it because of its nonce: the exception ends the service.
InstallRefused(s) ==
  /\ NeedsContract(s)
  /\ Taken(s, nonce[s])
  /\ Go(s, "ended")
  /\ UNCHANGED <<net, view, nonce, stored, stage, address, history>>

\* Mutant of the next definition: the registrar is not told.
InstalledUnnamed(s) ==
  LET a == address[s][stage[s]]
  IN  /\ step[s] = "installing" /\ HasContract(s, a)
      /\ IF stage[s] = 1
           THEN Store(s, a)
           ELSE /\ NextStage(s, a)
                /\ UNCHANGED <<stored, faults, fileLost>>
      /\ UNCHANGED <<net, view, nonce, chainLost, clean>>

\* Its receipt is there.  The registrar is to be told the address of the
\* others under their names: sendTransaction takes a nonce and queues it.
Installed(s) ==
  LET a == address[s][stage[s]]
  IN  /\ step[s] = "installing" /\ HasContract(s, a)
      /\ IF stage[s] = 1
           THEN /\ Store(s, a)
                /\ UNCHANGED nonce
           ELSE /\ nonce' = [nonce EXCEPT ![s] = @ + 1]
                /\ Go(s, "telling")
                /\ UNCHANGED <<stage, address, stored, faults, fileLost>>
      /\ UNCHANGED <<net, view, chainLost, clean>>

\* storeRegistrarAddress, second part: the address is written, or the file
\* stays empty, with a warning.
Stored(s) ==
  /\ step[s] = "storing"
  /\ NextStage(s, address[s][1])
  /\ \/ /\ stored' = [stored EXCEPT ![s] = address[s][1]]
        /\ UNCHANGED <<faults, fileLost>>
     \/ /\ MayFail
        /\ faults' = faults + 1
        /\ fileLost' = TRUE
        /\ UNCHANGED stored
  /\ UNCHANGED <<net, view, nonce, chainLost, clean>>

\* The submit timer sends the setAddress.  Its nonce follows that of a contract
\* this life has seen mined, so that no other transaction has it.
Tell(s) ==
  /\ step[s] = "telling"
  /\ Admit(s, nonce[s] - 1, SetAddress(s, address[s][1], Names[stage[s]], address[s][stage[s]]))
  /\ Go(s, "naming")
  /\ UNCHANGED <<installs, view, nonce, stored, stage, address, history>>

\* The receipt of setAddress is there.
Named(s) ==
  LET a == address[s][stage[s]]
  IN  /\ step[s] = "naming"
      /\ \E tx \in Seen(s) : tx.kind = "setAddress" /\ tx.address = a
      /\ NextStage(s, a)
      /\ UNCHANGED <<net, view, nonce, stored, history>>

-------------------------------------------------------------------------------
(* A secondary: Mode.WAIT                                                  *)

\* The configuration service is registered when all contracts are there.
ServesConfiguration(p) == stage[p] = Serving

\* getConfiguration waits for the configuration service of a primary.
Configured(s) ==
  /\ s \in Secondaries /\ stage[s] = 1 /\ step[s] = "find"
  /\ \E p \in Primaries :
       /\ ServesConfiguration(p)
       /\ address' = [address EXCEPT ![s][1] = address[p][1]]
  /\ Go(s, "waiting")
  /\ UNCHANGED <<net, view, nonce, stored, stage, history>>

\* getAddress waits for an address of the registrar that is not zero.
Resolved(s) ==
  /\ s \in Secondaries /\ stage[s] \in 2 .. Serving - 1 /\ step[s] = "find"
  /\ Candidate(s) # Zero
  /\ address' = [address EXCEPT ![s][stage[s]] = Candidate(s)]
  /\ Go(s, "waiting")
  /\ UNCHANGED <<net, view, nonce, stored, stage, history>>

\* waitForContractAtAddress
Attached(s) ==
  LET a == address[s][stage[s]]
  IN  /\ step[s] = "waiting" /\ HasContract(s, a)
      /\ NextStage(s, a)
      /\ UNCHANGED <<net, view, nonce, stored, history>>

-------------------------------------------------------------------------------
(* The nodes, and failures.                                                *)

Mine(s) ==
  /\ \E tx \in pool[s] : chain' = Append(chain, tx)
  /\ pool' = [pool EXCEPT ![s] = {}]
  /\ UNCHANGED <<installs, account, view, nonce, stored, progress, history>>

Sync(s) ==
  /\ \E n \in view[s] + 1 .. Len(chain) : view' = [view EXCEPT ![s] = n]
  /\ UNCHANGED <<net, nonce, stored, progress, history>>

\* The process is gone: what it was about, and its write of the file.
Killed(s) ==
  /\ faults' = faults + 1
  /\ stage' = [stage EXCEPT ![s] = 1]
  /\ Go(s, "starting")
  /\ address' = [address EXCEPT ![s] = NoAddresses]
  /\ nonce' = [nonce EXCEPT ![s] = 0]
  /\ fileLost' = (fileLost \/ step[s] = "storing")

\* Its transaction in the pool of a node may be lost as well, or not.
PoolMayBeLost(s) == UNCHANGED pool \/ pool' = [pool EXCEPT ![s] = {}]

Crash(s) ==
  /\ MayFail
  /\ Killed(s)
  /\ PoolMayBeLost(s)
  /\ UNCHANGED <<chain, installs, account, view, stored, chainLost, clean>>

\* The service's node starts again without its data and its service with it.
\* If the key is gone too the service gets another account; nobody has the
\* transactions of the old one then.
NodeLosesChain(s) ==
  /\ MayFail
  /\ Killed(s)
  /\ chainLost' = TRUE
  /\ view' = [view EXCEPT ![s] = 0]
  /\ \/ PoolMayBeLost(s) /\ UNCHANGED account
     \/ /\ pool' = [pool EXCEPT ![s] = {}]
        /\ account' = [account EXCEPT ![s] = Len(chain)]
  /\ UNCHANGED <<chain, installs, stored, clean>>

-------------------------------------------------------------------------------
ServiceStep(s) ==
  \/ Start(s) \/ Found(s)
  \/ InstallContract(s) \/ InstallRefused(s) \/ Installed(s) \/ Stored(s)
  \/ Tell(s) \/ Named(s)
  \/ Configured(s) \/ Resolved(s) \/ Attached(s)

Next ==
  \E s \in Services :
    ServiceStep(s) \/ Mine(s) \/ Sync(s) \/ Crash(s) \/ NodeLosesChain(s)

Spec == Init /\ [][Next]_vars

\* Services go on, nodes mine and synchronise.
FairSpec ==
  /\ Spec
  /\ \A s \in Services : WF_vars(ServiceStep(s)) /\ WF_vars(Mine(s)) /\ WF_vars(Sync(s))

-------------------------------------------------------------------------------
(* Properties                                                              *)

InstallsOf(name) == {tx \in ToSet(chain) : tx.kind = "install" /\ tx.name = name}
Serves(s) == stage[s] = Serving

\* A proxy holds an address its service's node has code at, once its stage is
\* over, and a registrar that is stored exists.
TypeOK ==
  /\ \A s \in Services :
       /\ view[s] \in 0 .. Len(chain)
       /\ step[s] \in {"starting", "find", "installing", "storing", "telling", "naming",
                        "waiting", "ended"}
       /\ stage[s] \in 1 .. Serving
       /\ \A i \in 1 .. stage[s] - 1 : HasContract(s, address[s][i])
       /\ stored[s] # Zero => \E tx \in InstallsOf(Names[1]) : tx.id = stored[s]

NothingWasLost == ~fileLost /\ ~chainLost

\* "attach to the same instance as the primary node" (usage.txt:23): all
\* services that serve use the same contracts, at whatever points a primary
\* was killed before, unless that was while it rewrote registrar.properties:
\* the file is emptied at every start, and a primary that finds it empty
\* installs another registrar.
SameInstance ==
  NothingWasLost =>
    \A s, t \in Services : Serves(s) /\ Serves(t) => address[s] = address[t]

\* And they are those the registrar names, so that a service to come attaches
\* to them too, whatever transactions earlier lives had on their way.
RegistrarNamesThem ==
  NothingWasLost =>
    \A s \in Services, i \in 2 .. Serving - 1 :
      Serves(s) => GetAddress(Len(chain), address[s][1], Names[i]) = address[s][i]

\* "store the Registrar address for when the process is restarted"
\* (usage.txt:13): a primary with a stored address installs no registrar
\* again, unless a node has lost the chain.
StoredIsUsed ==
  [][\A s \in Primaries :
       stored[s] # Zero /\ stage[s] = 1 /\ step'[s] = "installing" => chainLost]_vars

\* Once the failures are over every service serves, whatever a primary that
\* was killed had done before, if it was not started again while one of its
\* transactions was on its way: the two would have the same nonce.
EveryoneServes == <>[](clean => \A s \in Services : Serves(s))

===============================================================================
