------------------------- MODULE PaymentServiceProofs -------------------------
(***************************************************************************)
(* Proofs about the contract, for every set of banks and currencies and    *)
(* every width of int, as long as amounts keep to half of its range.       *)
(***************************************************************************)
EXTENDS PaymentServiceRefinement, TLAPS

-------------------------------------------------------------------------------
(* The lines of the trustlines as triples.                                 *)

LEMMA AddressOrder == Addresses \subseteq Nat
BY BanksAssumption DEF Addresses, ZeroAddress

LEMMA LineTriple ==
  ASSUME NEW line \in Lines
  PROVE  /\ line[1] \in Addresses /\ line[2] \in Addresses /\ line[3] \in Currencies
         /\ line = <<line[1], line[2], line[3]>>
BY DEF Lines

LEMMA TripleLine ==
  ASSUME NEW x \in Addresses, NEW y \in Addresses, NEW c \in Currencies
  PROVE  /\ <<x, y, c>> \in Lines
         /\ x <= y => <<x, y, c>> \in StoredLines
         /\ <<x, y, c>>[1] = x /\ <<x, y, c>>[2] = y /\ <<x, y, c>>[3] = c
BY DEF Lines, StoredLines

LEMMA StoredInStorage ==
  ASSUME NEW x \in Addresses, NEW y \in Addresses, NEW c \in Currencies
  PROVE  Stored(x, y, c) \in StoredLines
BY AddressOrder, TripleLine DEF Stored, SenderIsP1Against

-------------------------------------------------------------------------------
(* What a transaction does to the answers of the getters.                  *)

\* setLimit changes one answer of getLimit and nothing else.
LEMMA WithLimitEffect ==
  ASSUME NEW storage \in [StoredLines -> TrustlineValue],
         NEW us \in Banks, NEW them \in Addresses,
         NEW ccy \in Currencies, NEW amount \in Amounts,
         NEW x \in Addresses, NEW y \in Addresses, NEW c \in Currencies
  PROVE  LET after == WithLimit(storage, us, them, ccy, amount)
         IN  /\ GetAmountOwedTo(after, x, y, c) = GetAmountOwedTo(storage, x, y, c)
             /\ GetAllow(after, x, y, c) = GetAllow(storage, x, y, c)
             /\ GetLimit(after, x, y, c) =
                  IF <<x, y, c>> = <<us, them, ccy>> THEN amount ELSE GetLimit(storage, x, y, c)
<1> DEFINE after == WithLimit(storage, us, them, ccy, amount)
           here == Stored(us, them, ccy)
           there == Stored(x, y, c)
<1>1. /\ here \in StoredLines /\ there \in StoredLines
      /\ us \in Nat /\ them \in Nat /\ x \in Nat /\ y \in Nat
  BY StoredInStorage, AddressOrder DEF Addresses
<1>2. after = [storage EXCEPT ![here][TheyOwe(us, them)].limit = amount]
  BY DEF WithLimit
<1>3. CASE us < them
  <2>1. after = [storage EXCEPT ![here]["p2OwesP1"].limit = amount]
    BY <1>2, <1>3 DEF TheyOwe, SenderIsP1Against
  <2>2. /\ after[there].p2OwesP1Amount = storage[there].p2OwesP1Amount
        /\ after[there].p1OwesP2 = storage[there].p1OwesP2
        /\ after[there].p2OwesP1.allow = storage[there].p2OwesP1.allow
        /\ after[there].p2OwesP1.limit =
             IF there = here THEN amount ELSE storage[there].p2OwesP1.limit
    BY <1>1, <2>1 DEF TrustlineValue, AllowLimit
  <2>3. here = <<us, them, ccy>>
    BY <1>3 DEF Stored, SenderIsP1Against
  <2>4. CASE x < y
    <3>1. there = <<x, y, c>>
      BY <2>4 DEF Stored, SenderIsP1Against
    <3> QED
      BY <2>2, <2>3, <2>4, <3>1
      DEF GetAmountOwedTo, GetLimit, GetAllow, Stored, SenderIsP1Against
  <2>5. CASE ~ (x < y)
    <3>1. there = <<y, x, c>> /\ <<x, y, c>> # <<us, them, ccy>>
      BY <1>3, <2>5 DEF Stored, SenderIsP1Against
    <3> QED
      BY <2>2, <2>5, <3>1
      DEF GetAmountOwedTo, GetLimit, GetAllow, Stored, SenderIsP1Against
  <2> QED BY <2>4, <2>5
<1>4. CASE ~ (us < them)
  <2>1. after = [storage EXCEPT ![here]["p1OwesP2"].limit = amount]
    BY <1>2, <1>4 DEF TheyOwe, SenderIsP1Against
  <2>2. /\ after[there].p2OwesP1Amount = storage[there].p2OwesP1Amount
        /\ after[there].p2OwesP1 = storage[there].p2OwesP1
        /\ after[there].p1OwesP2.allow = storage[there].p1OwesP2.allow
        /\ after[there].p1OwesP2.limit =
             IF there = here THEN amount ELSE storage[there].p1OwesP2.limit
    BY <1>1, <2>1 DEF TrustlineValue, AllowLimit
  <2>3. here = <<them, us, ccy>>
    BY <1>4 DEF Stored, SenderIsP1Against
  <2>4. CASE x < y
    <3>1. there = <<x, y, c>> /\ <<x, y, c>> # <<us, them, ccy>>
      BY <1>4, <2>4 DEF Stored, SenderIsP1Against
    <3> QED
      BY <2>2, <2>4, <3>1
      DEF GetAmountOwedTo, GetLimit, GetAllow, Stored, SenderIsP1Against
  <2>5. CASE ~ (x < y)
    <3>1. there = <<y, x, c>>
      BY <2>5 DEF Stored, SenderIsP1Against
    <3>2. there = here <=> <<x, y, c>> = <<us, them, ccy>>
      BY <2>3, <3>1
    <3> QED
      BY <2>2, <2>5, <3>1, <3>2
      DEF GetAmountOwedTo, GetLimit, GetAllow, Stored, SenderIsP1Against
  <2> QED BY <2>4, <2>5
<1> QED BY <1>3, <1>4

\* setAllow changes one answer of getAllow and nothing else.
LEMMA WithAllowEffect ==
  ASSUME NEW storage \in [StoredLines -> TrustlineValue],
         NEW us \in Banks, NEW them \in Addresses,
         NEW ccy \in Currencies, NEW amount \in Amounts,
         NEW x \in Addresses, NEW y \in Addresses, NEW c \in Currencies
  PROVE  LET after == WithAllow(storage, us, them, ccy, amount)
         IN  /\ GetAmountOwedTo(after, x, y, c) = GetAmountOwedTo(storage, x, y, c)
             /\ GetLimit(after, x, y, c) = GetLimit(storage, x, y, c)
             /\ GetAllow(after, x, y, c) =
                  IF <<x, y, c>> = <<us, them, ccy>> THEN amount ELSE GetAllow(storage, x, y, c)
<1> DEFINE after == WithAllow(storage, us, them, ccy, amount)
           here == Stored(us, them, ccy)
           there == Stored(x, y, c)
<1>1. /\ here \in StoredLines /\ there \in StoredLines
      /\ us \in Nat /\ them \in Nat /\ x \in Nat /\ y \in Nat
  BY StoredInStorage, AddressOrder DEF Addresses
<1>2. after = [storage EXCEPT ![here][WeOwe(us, them)].allow = amount]
  BY DEF WithAllow
<1>3. CASE us < them
  <2>1. after = [storage EXCEPT ![here]["p1OwesP2"].allow = amount]
    BY <1>2, <1>3 DEF WeOwe, SenderIsP1Against
  <2>2. /\ after[there].p2OwesP1Amount = storage[there].p2OwesP1Amount
        /\ after[there].p2OwesP1 = storage[there].p2OwesP1
        /\ after[there].p1OwesP2.limit = storage[there].p1OwesP2.limit
        /\ after[there].p1OwesP2.allow =
             IF there = here THEN amount ELSE storage[there].p1OwesP2.allow
    BY <1>1, <2>1 DEF TrustlineValue, AllowLimit
  <2>3. here = <<us, them, ccy>>
    BY <1>3 DEF Stored, SenderIsP1Against
  <2>4. CASE x < y
    <3>1. there = <<x, y, c>>
      BY <2>4 DEF Stored, SenderIsP1Against
    <3> QED
      BY <2>2, <2>3, <2>4, <3>1
      DEF GetAmountOwedTo, GetLimit, GetAllow, Stored, SenderIsP1Against
  <2>5. CASE ~ (x < y)
    <3>1. there = <<y, x, c>> /\ <<x, y, c>> # <<us, them, ccy>>
      BY <1>3, <2>5 DEF Stored, SenderIsP1Against
    <3> QED
      BY <2>2, <2>5, <3>1
      DEF GetAmountOwedTo, GetLimit, GetAllow, Stored, SenderIsP1Against
  <2> QED BY <2>4, <2>5
<1>4. CASE ~ (us < them)
  <2>1. after = [storage EXCEPT ![here]["p2OwesP1"].allow = amount]
    BY <1>2, <1>4 DEF WeOwe, SenderIsP1Against
  <2>2. /\ after[there].p2OwesP1Amount = storage[there].p2OwesP1Amount
        /\ after[there].p1OwesP2 = storage[there].p1OwesP2
        /\ after[there].p2OwesP1.limit = storage[there].p2OwesP1.limit
        /\ after[there].p2OwesP1.allow =
             IF there = here THEN amount ELSE storage[there].p2OwesP1.allow
    BY <1>1, <2>1 DEF TrustlineValue, AllowLimit
  <2>3. here = <<them, us, ccy>>
    BY <1>4 DEF Stored, SenderIsP1Against
  <2>4. CASE x < y
    <3>1. there = <<x, y, c>> /\ <<x, y, c>> # <<us, them, ccy>>
      BY <1>4, <2>4 DEF Stored, SenderIsP1Against
    <3> QED
      BY <2>2, <2>4, <3>1
      DEF GetAmountOwedTo, GetLimit, GetAllow, Stored, SenderIsP1Against
  <2>5. CASE ~ (x < y)
    <3>1. there = <<y, x, c>>
      BY <2>5 DEF Stored, SenderIsP1Against
    <3>2. there = here <=> <<x, y, c>> = <<us, them, ccy>>
      BY <2>3, <3>1
    <3> QED
      BY <2>2, <2>5, <3>1, <3>2
      DEF GetAmountOwedTo, GetLimit, GetAllow, Stored, SenderIsP1Against
  <2> QED BY <2>4, <2>5
<1> QED BY <1>3, <1>4

-------------------------------------------------------------------------------
(* Payments: no arithmetic of sendPayment wraps.                           *)

LEMMA WrapExact ==
  ASSUME NEW n \in Int256
  PROVE  Wrap(n) = n
BY MaxIntAssumption DEF Int256, Wrap

\* The stored balance, and the two ends of it.
LEMMA StoredBalance ==
  ASSUME TypeOK, BalancesBounded,
         NEW x \in Addresses, NEW y \in Addresses, NEW c \in Currencies, x < y
  PROVE  LET stored == trustlines[<<x, y, c>>].p2OwesP1Amount
         IN  /\ stored \in -MaxAmount .. MaxAmount
             /\ GetAmountOwedTo(trustlines, x, y, c) = -stored
             /\ GetAmountOwedTo(trustlines, y, x, c) = stored
<1> DEFINE stored == trustlines[<<x, y, c>>].p2OwesP1Amount
<1>1. x \in Nat /\ y \in Nat
  BY AddressOrder
<1>2. <<x, y, c>> \in StoredLines /\ <<y, x, c>> \in Lines
  BY TripleLine, <1>1
<1>3. stored \in Int256
  BY <1>2 DEF TypeOK, TrustlineValue
<1>4. GetAmountOwedTo(trustlines, x, y, c) = Wrap(-stored) /\ GetAmountOwedTo(trustlines, y, x, c) = stored
  BY <1>1 DEF GetAmountOwedTo, Stored, SenderIsP1Against
<1>5. stored \in -MaxAmount .. MaxAmount
  BY <1>2, <1>4, TripleLine DEF BalancesBounded, Owed
<1>6. -stored \in Int256
  BY <1>5, SmallAmounts, MaxIntAssumption DEF Int256
<1> QED BY <1>4, <1>5, <1>6, WrapExact

\* What is owed is equal and opposite.
LEMMA EqualAndOpposite ==
  ASSUME TypeOK, BalancesBounded,
         NEW x \in Addresses, NEW y \in Addresses, NEW c \in Currencies, x # y
  PROVE  /\ GetAmountOwedTo(trustlines, x, y, c) \in -MaxAmount .. MaxAmount
         /\ GetAmountOwedTo(trustlines, x, y, c) = -GetAmountOwedTo(trustlines, y, x, c)
<1>1. x \in Nat /\ y \in Nat
  BY AddressOrder
<1>2. CASE x < y
  <2> DEFINE stored == trustlines[<<x, y, c>>].p2OwesP1Amount
  <2>1. /\ stored \in -MaxAmount .. MaxAmount
        /\ GetAmountOwedTo(trustlines, x, y, c) = -stored
        /\ GetAmountOwedTo(trustlines, y, x, c) = stored
    BY <1>2, StoredBalance
  <2> QED BY <2>1, SmallAmounts
<1>3. CASE y < x
  <2> DEFINE stored == trustlines[<<y, x, c>>].p2OwesP1Amount
  <2>1. /\ stored \in -MaxAmount .. MaxAmount
        /\ GetAmountOwedTo(trustlines, y, x, c) = -stored
        /\ GetAmountOwedTo(trustlines, x, y, c) = stored
    BY <1>3, StoredBalance
  <2> QED BY <2>1, SmallAmounts
<1> QED BY <1>1, <1>2, <1>3

\* The limit test of sendPayment computes the exact new debt.
LEMMA ExactTest ==
  ASSUME TypeOK, BalancesBounded, NEW us \in Banks, NEW them \in Addresses,
         NEW ccy \in Currencies, NEW amount \in Amounts, us # them, amount >= 0
  PROVE  LET newDebt == GetAmountOwedTo(trustlines, us, them, ccy) + amount
         IN  /\ newDebt \in Int256
             /\ NewAmount(us, them, ccy, amount) =
                  IF us < them THEN -newDebt ELSE newDebt
             /\ WithinGrants(us, them, ccy, amount)
                <=> /\ newDebt <= GetLimit(trustlines, them, us, ccy)
                    /\ newDebt <= GetAllow(trustlines, us, them, ccy)
<1> DEFINE newDebt == GetAmountOwedTo(trustlines, us, them, ccy) + amount
<1>1. us \in Addresses /\ us \in Nat /\ them \in Nat /\ amount \in 0 .. MaxAmount
  BY AddressOrder, AmountsAssumption, SmallAmounts DEF Addresses, Int256
<1>2. CASE us < them
  <2> DEFINE stored == trustlines[<<us, them, ccy>>].p2OwesP1Amount
  <2>1. stored \in -MaxAmount .. MaxAmount /\ GetAmountOwedTo(trustlines, us, them, ccy) = -stored
    BY <1>1, <1>2, StoredBalance
  <2>2. stored - amount \in Int256 /\ newDebt \in Int256 /\ newDebt = -(stored - amount)
    BY <1>1, <2>1, SmallAmounts, MaxIntAssumption DEF Int256
  <2>3. NewAmount(us, them, ccy, amount) = -newDebt
    <3>1. NewAmount(us, them, ccy, amount) = Wrap(stored - amount)
      BY <1>2 DEF NewAmount, Stored, SenderIsP1Against
    <3> QED BY <2>2, <3>1, WrapExact DEF Int256
  <2>4. Wrap(-NewAmount(us, them, ccy, amount)) = newDebt
    BY <2>2, <2>3, WrapExact DEF Int256
  <2>5. /\ GetLimit(trustlines, them, us, ccy) = trustlines[<<us, them, ccy>>].p1OwesP2.limit
        /\ GetAllow(trustlines, us, them, ccy) = trustlines[<<us, them, ccy>>].p1OwesP2.allow
    BY <1>1, <1>2 DEF GetLimit, GetAllow, Stored, SenderIsP1Against
  <2>6. WithinGrants(us, them, ccy, amount)
        <=> /\ newDebt <= trustlines[<<us, them, ccy>>].p1OwesP2.limit
            /\ newDebt <= trustlines[<<us, them, ccy>>].p1OwesP2.allow
    BY <1>2, <2>4 DEF WithinGrants, WeOwe, Stored, SenderIsP1Against
  <2> QED BY <1>2, <2>2, <2>3, <2>5, <2>6
<1>3. CASE them < us
  <2> DEFINE stored == trustlines[<<them, us, ccy>>].p2OwesP1Amount
  <2>1. stored \in -MaxAmount .. MaxAmount /\ GetAmountOwedTo(trustlines, us, them, ccy) = stored
    BY <1>1, <1>3, StoredBalance
  <2>2. newDebt \in Int256 /\ newDebt = stored + amount
    BY <1>1, <2>1, SmallAmounts, MaxIntAssumption DEF Int256
  <2>3. NewAmount(us, them, ccy, amount) = newDebt
    <3>1. NewAmount(us, them, ccy, amount) = Wrap(stored + amount)
      BY <1>1, <1>3 DEF NewAmount, Stored, SenderIsP1Against
    <3> QED BY <2>2, <3>1, WrapExact
  <2>5. /\ GetLimit(trustlines, them, us, ccy) = trustlines[<<them, us, ccy>>].p2OwesP1.limit
        /\ GetAllow(trustlines, us, them, ccy) = trustlines[<<them, us, ccy>>].p2OwesP1.allow
    BY <1>1, <1>3 DEF GetLimit, GetAllow, Stored, SenderIsP1Against
  <2>6. WithinGrants(us, them, ccy, amount)
        <=> /\ newDebt <= trustlines[<<them, us, ccy>>].p2OwesP1.limit
            /\ newDebt <= trustlines[<<them, us, ccy>>].p2OwesP1.allow
    <3>1. ~ (us < them)
      BY <1>1, <1>3
    <3>2. WithinGrants(us, them, ccy, amount)
          <=> /\ NewAmount(us, them, ccy, amount) <= trustlines[<<them, us, ccy>>].p2OwesP1.limit
              /\ NewAmount(us, them, ccy, amount) <= trustlines[<<them, us, ccy>>].p2OwesP1.allow
      BY <3>1 DEF WithinGrants, WeOwe, Stored, SenderIsP1Against
    <3> QED BY <2>3, <3>2
  <2>7. ~ (us < them)
    BY <1>1, <1>3
  <2> QED BY <2>2, <2>3, <2>5, <2>6, <2>7
<1>4. us < them \/ them < us
  BY <1>1
<1> QED BY <1>2, <1>3, <1>4

\* An accepted payment moves the balance at both ends, by its amount, and
\* its sender's new debt is within both grants.
LEMMA PaymentEffect ==
  ASSUME TypeOK, BalancesBounded, NEW us \in Banks, NEW them \in Addresses,
         NEW ccy \in Currencies, NEW amount \in Amounts,
         PaymentError(us, them, amount) = 0, WithinGrants(us, them, ccy, amount),
         NEW x \in Addresses, NEW y \in Addresses, NEW c \in Currencies
  PROVE  LET after == WithBalance(trustlines, us, them, ccy, NewAmount(us, them, ccy, amount))
         IN  /\ us # them /\ them # ZeroAddress /\ amount \in 0 .. MaxAmount
             /\ GetAmountOwedTo(trustlines, us, them, ccy) + amount <= GetLimit(trustlines, them, us, ccy)
             /\ GetAmountOwedTo(trustlines, us, them, ccy) + amount <= GetAllow(trustlines, us, them, ccy)
             /\ GetAmountOwedTo(after, x, y, c) =
                  IF <<x, y, c>> = <<us, them, ccy>> THEN GetAmountOwedTo(trustlines, x, y, c) + amount
                  ELSE IF <<x, y, c>> = <<them, us, ccy>> THEN GetAmountOwedTo(trustlines, x, y, c) - amount
                  ELSE GetAmountOwedTo(trustlines, x, y, c)
             /\ GetLimit(after, x, y, c) = GetLimit(trustlines, x, y, c)
             /\ GetAllow(after, x, y, c) = GetAllow(trustlines, x, y, c)
<1> DEFINE after == WithBalance(trustlines, us, them, ccy, NewAmount(us, them, ccy, amount))
           here == Stored(us, them, ccy)
           there == Stored(x, y, c)
           newAmount == NewAmount(us, them, ccy, amount)
           newDebt == GetAmountOwedTo(trustlines, us, them, ccy) + amount
<1>1. /\ here \in StoredLines /\ there \in StoredLines
      /\ us \in Nat /\ them \in Nat /\ x \in Nat /\ y \in Nat
      /\ us \in Addresses
  BY StoredInStorage, AddressOrder DEF Addresses
<1>2. us # them /\ them # ZeroAddress /\ amount \in 0 .. MaxAmount
  BY AmountsAssumption, SmallAmounts DEF PaymentError, Int256
<1>3. /\ newDebt \in Int256
      /\ newAmount = IF us < them THEN -newDebt ELSE newDebt
      /\ newDebt <= GetLimit(trustlines, them, us, ccy)
      /\ newDebt <= GetAllow(trustlines, us, them, ccy)
  <2>1. amount >= 0
    BY <1>2
  <2> QED BY <1>2, <2>1, ExactTest
<1>4. after = [trustlines EXCEPT ![here].p2OwesP1Amount = newAmount]
  BY DEF WithBalance
<1>5. /\ after[there].p2OwesP1 = trustlines[there].p2OwesP1
      /\ after[there].p1OwesP2 = trustlines[there].p1OwesP2
      /\ after[there].p2OwesP1Amount =
           IF there = here THEN newAmount ELSE trustlines[there].p2OwesP1Amount
  BY <1>1, <1>4 DEF TypeOK, TrustlineValue, AllowLimit
<1>6. /\ GetLimit(after, x, y, c) = GetLimit(trustlines, x, y, c)
      /\ GetAllow(after, x, y, c) = GetAllow(trustlines, x, y, c)
  BY <1>5 DEF GetLimit, GetAllow
<1>7. GetAmountOwedTo(after, x, y, c) =
        IF <<x, y, c>> = <<us, them, ccy>> THEN GetAmountOwedTo(trustlines, x, y, c) + amount
        ELSE IF <<x, y, c>> = <<them, us, ccy>> THEN GetAmountOwedTo(trustlines, x, y, c) - amount
        ELSE GetAmountOwedTo(trustlines, x, y, c)
  <2>1. /\ us < them => here = <<us, them, ccy>>
        /\ them < us => here = <<them, us, ccy>>
        /\ x < y => there = <<x, y, c>>
        /\ ~ (x < y) => there = <<y, x, c>>
    BY <1>1 DEF Stored, SenderIsP1Against
  <2>6. /\ us < them => here[1] = us /\ here[2] = them /\ here[3] = ccy
        /\ them < us => here[1] = them /\ here[2] = us /\ here[3] = ccy
        /\ x < y => there[1] = x /\ there[2] = y /\ there[3] = c
        /\ ~ (x < y) => there[1] = y /\ there[2] = x /\ there[3] = c
    BY <1>1 DEF Stored, SenderIsP1Against
  <2>2. GetAmountOwedTo(after, x, y, c) =
          LET stored == after[there].p2OwesP1Amount
          IN  IF x < y THEN Wrap(-stored) ELSE stored
    BY DEF GetAmountOwedTo, SenderIsP1Against
  <2>3. GetAmountOwedTo(trustlines, x, y, c) =
          LET stored == trustlines[there].p2OwesP1Amount
          IN  IF x < y THEN Wrap(-stored) ELSE stored
    BY DEF GetAmountOwedTo, SenderIsP1Against
  <2>4. CASE there # here
    <3>1. <<x, y, c>> # <<us, them, ccy>> /\ <<x, y, c>> # <<them, us, ccy>>
      BY <1>1, <1>2, <2>1, <2>4
    <3> QED BY <1>5, <2>2, <2>3, <2>4, <3>1
  <2>5. CASE there = here
    <3>1. /\ GetAmountOwedTo(trustlines, us, them, ccy) \in -MaxAmount .. MaxAmount
          /\ GetAmountOwedTo(trustlines, us, them, ccy) = -GetAmountOwedTo(trustlines, them, us, ccy)
      BY <1>1, <1>2, EqualAndOpposite
    <3>2. /\ GetAmountOwedTo(trustlines, them, us, ccy) \in -MaxAmount .. MaxAmount
          /\ GetAmountOwedTo(trustlines, them, us, ccy) = -GetAmountOwedTo(trustlines, us, them, ccy)
      BY <1>1, <1>2, EqualAndOpposite
    <3>3. Wrap(newDebt) = newDebt /\ -newDebt \in Int256 /\ Wrap(-newDebt) = -newDebt
      <4>1. newDebt \in Int256 /\ -newDebt \in Int256
        BY <1>2, <1>3, <3>1, SmallAmounts, MaxIntAssumption DEF Int256
      <4> QED BY <4>1, WrapExact
    <3> HIDE DEF here, there, newAmount, newDebt
    <3>7. GetAmountOwedTo(after, x, y, c) = IF x < y THEN Wrap(-newAmount) ELSE newAmount
      BY <1>5, <2>2, <2>5
    <3>4. CASE x = us /\ y = them /\ c = ccy
      <4>1. <<x, y, c>> = <<us, them, ccy>>
        BY <3>4
      <4>2. GetAmountOwedTo(after, x, y, c) = newDebt
        <5>1. CASE us < them
          BY <1>3, <3>3, <3>4, <3>7, <5>1 DEF Int256
        <5>2. CASE ~ (us < them)
          BY <1>3, <3>4, <3>7, <5>2
        <5> QED BY <5>1, <5>2
      <4> QED BY <3>4, <4>1, <4>2 DEF newDebt
    <3>5. CASE x = them /\ y = us /\ c = ccy
      <4>1. <<x, y, c>> = <<them, us, ccy>> /\ <<x, y, c>> # <<us, them, ccy>>
        BY <1>2, <3>5
      <4>2. GetAmountOwedTo(after, x, y, c) = -newDebt
        <5>1. CASE them < us
          <6>1. ~ (us < them)
            BY <1>1, <5>1
          <6> QED BY <1>3, <3>3, <3>5, <3>7, <5>1, <6>1
        <5>2. CASE ~ (them < us)
          <6>1. us < them
            BY <1>1, <1>2, <5>2
          <6> QED BY <1>3, <3>5, <3>7, <5>2, <6>1
        <5> QED BY <5>1, <5>2
      <4>3. -newDebt = GetAmountOwedTo(trustlines, x, y, c) - amount
        <5>1. -newDebt = GetAmountOwedTo(trustlines, them, us, ccy) - amount
          BY <1>2, <3>1, <3>2, SmallAmounts DEF newDebt
        <5> QED BY <3>5, <5>1
      <4> QED BY <4>1, <4>2, <4>3
    <3>6. ((x = us /\ y = them) \/ (x = them /\ y = us)) /\ c = ccy
      BY <1>1, <1>2, <2>5, <2>6
    <3> QED BY <3>4, <3>5, <3>6
  <2> QED BY <2>4, <2>5
<1> QED BY <1>2, <1>3, <1>6, <1>7


-------------------------------------------------------------------------------
(* The same, line by line, and the types of the storage.                   *)

LEMMA LimitLine ==
  ASSUME NEW storage \in [StoredLines -> TrustlineValue],
         NEW us \in Banks, NEW them \in Addresses,
         NEW ccy \in Currencies, NEW amount \in Amounts, NEW line \in Lines
  PROVE  LET after == WithLimit(storage, us, them, ccy, amount)
         IN  /\ Owed(after, line) = Owed(storage, line)
             /\ AllowSet(after, line) = AllowSet(storage, line)
             /\ LimitSet(after, line) =
                  IF line = <<us, them, ccy>> THEN amount ELSE LimitSet(storage, line)
<1> DEFINE after == WithLimit(storage, us, them, ccy, amount)
<1>1. PICK x \in Addresses, y \in Addresses, c \in Currencies : line = <<x, y, c>>
  BY LineTriple
<1>2. /\ GetAmountOwedTo(after, x, y, c) = GetAmountOwedTo(storage, x, y, c)
      /\ GetAllow(after, x, y, c) = GetAllow(storage, x, y, c)
      /\ GetLimit(after, x, y, c) =
           IF <<x, y, c>> = <<us, them, ccy>> THEN amount ELSE GetLimit(storage, x, y, c)
  BY WithLimitEffect
<1> QED BY <1>1, <1>2 DEF Owed, AllowSet, LimitSet

LEMMA AllowLine ==
  ASSUME NEW storage \in [StoredLines -> TrustlineValue],
         NEW us \in Banks, NEW them \in Addresses,
         NEW ccy \in Currencies, NEW amount \in Amounts, NEW line \in Lines
  PROVE  LET after == WithAllow(storage, us, them, ccy, amount)
         IN  /\ Owed(after, line) = Owed(storage, line)
             /\ LimitSet(after, line) = LimitSet(storage, line)
             /\ AllowSet(after, line) =
                  IF line = <<us, them, ccy>> THEN amount ELSE AllowSet(storage, line)
<1> DEFINE after == WithAllow(storage, us, them, ccy, amount)
<1>1. PICK x \in Addresses, y \in Addresses, c \in Currencies : line = <<x, y, c>>
  BY LineTriple
<1>2. /\ GetAmountOwedTo(after, x, y, c) = GetAmountOwedTo(storage, x, y, c)
      /\ GetLimit(after, x, y, c) = GetLimit(storage, x, y, c)
      /\ GetAllow(after, x, y, c) =
           IF <<x, y, c>> = <<us, them, ccy>> THEN amount ELSE GetAllow(storage, x, y, c)
  BY WithAllowEffect
<1> QED BY <1>1, <1>2 DEF Owed, AllowSet, LimitSet

LEMMA PaymentLine ==
  ASSUME TypeOK, BalancesBounded, NEW us \in Banks, NEW them \in Addresses,
         NEW ccy \in Currencies, NEW amount \in Amounts,
         PaymentError(us, them, amount) = 0, WithinGrants(us, them, ccy, amount),
         NEW line \in Lines
  PROVE  LET after == WithBalance(trustlines, us, them, ccy, NewAmount(us, them, ccy, amount))
         IN  /\ us # them /\ them # ZeroAddress /\ amount \in 0 .. MaxAmount
             /\ Owed(trustlines, <<us, them, ccy>>) + amount <= LimitSet(trustlines, <<them, us, ccy>>)
             /\ Owed(trustlines, <<us, them, ccy>>) + amount <= AllowSet(trustlines, <<us, them, ccy>>)
             /\ Owed(after, line) =
                  IF line = <<us, them, ccy>> THEN Owed(trustlines, line) + amount
                  ELSE IF line = <<them, us, ccy>> THEN Owed(trustlines, line) - amount
                  ELSE Owed(trustlines, line)
             /\ LimitSet(after, line) = LimitSet(trustlines, line)
             /\ AllowSet(after, line) = AllowSet(trustlines, line)
<1> DEFINE after == WithBalance(trustlines, us, them, ccy, NewAmount(us, them, ccy, amount))
<1>1. PICK x \in Addresses, y \in Addresses, c \in Currencies : line = <<x, y, c>>
  BY LineTriple
<1>2. /\ us # them /\ them # ZeroAddress /\ amount \in 0 .. MaxAmount
      /\ GetAmountOwedTo(trustlines, us, them, ccy) + amount <= GetLimit(trustlines, them, us, ccy)
      /\ GetAmountOwedTo(trustlines, us, them, ccy) + amount <= GetAllow(trustlines, us, them, ccy)
      /\ GetAmountOwedTo(after, x, y, c) =
           IF <<x, y, c>> = <<us, them, ccy>> THEN GetAmountOwedTo(trustlines, x, y, c) + amount
           ELSE IF <<x, y, c>> = <<them, us, ccy>> THEN GetAmountOwedTo(trustlines, x, y, c) - amount
           ELSE GetAmountOwedTo(trustlines, x, y, c)
      /\ GetLimit(after, x, y, c) = GetLimit(trustlines, x, y, c)
      /\ GetAllow(after, x, y, c) = GetAllow(trustlines, x, y, c)
  BY PaymentEffect
<1> QED BY <1>1, <1>2 DEF Owed, AllowSet, LimitSet

LEMMA StorageType ==
  ASSUME NEW storage \in [StoredLines -> TrustlineValue],
         NEW us \in Banks, NEW them \in Addresses, NEW ccy \in Currencies, NEW amount \in Int256
  PROVE  /\ WithLimit(storage, us, them, ccy, amount) \in [StoredLines -> TrustlineValue]
         /\ WithAllow(storage, us, them, ccy, amount) \in [StoredLines -> TrustlineValue]
         /\ WithBalance(storage, us, them, ccy, amount) \in [StoredLines -> TrustlineValue]
<1>1. Stored(us, them, ccy) \in StoredLines
  BY StoredInStorage DEF Addresses
<1>2. CASE us < them
  BY <1>1, <1>2 DEF WithLimit, WithAllow, WithBalance, TheyOwe, WeOwe, SenderIsP1Against, TrustlineValue, AllowLimit
<1>3. CASE ~ (us < them)
  BY <1>1, <1>3 DEF WithLimit, WithAllow, WithBalance, TheyOwe, WeOwe, SenderIsP1Against, TrustlineValue, AllowLimit
<1> QED BY <1>2, <1>3

-------------------------------------------------------------------------------
(* The inductive invariant.                                                *)

LEMMA InitiallyEmpty ==
  Init => \A line \in Lines :
            /\ Owed(trustlines, line) = 0
            /\ LimitSet(trustlines, line) = 0
            /\ AllowSet(trustlines, line) = 0
<1> SUFFICES ASSUME Init, NEW line \in Lines
             PROVE  /\ Owed(trustlines, line) = 0
                    /\ LimitSet(trustlines, line) = 0
                    /\ AllowSet(trustlines, line) = 0
  OBVIOUS
<1>1. PICK x \in Addresses, y \in Addresses, c \in Currencies : line = <<x, y, c>>
  BY LineTriple
<1>2. trustlines[Stored(x, y, c)] = [p2OwesP1Amount |-> 0,
                                     p2OwesP1 |-> [allow |-> 0, limit |-> 0],
                                     p1OwesP2 |-> [allow |-> 0, limit |-> 0]]
  BY StoredInStorage DEF Init
<1>3. Wrap(-trustlines[Stored(x, y, c)].p2OwesP1Amount) = 0
  <2>1. \A n \in Int : n <= 0 /\ n >= 0 => Wrap(-n) = n
    BY MaxIntAssumption DEF Wrap
  <2> QED BY <1>2, <2>1
<1> QED
  BY <1>1, <1>2, <1>3
  DEF Owed, LimitSet, AllowSet, GetAmountOwedTo, GetLimit, GetAllow

\* No transaction makes int arithmetic wrap, as long as two amounts add up to
\* an int; the rest of the invariant is what it takes to show it.
THEOREM NoOverflowInvariant == Spec => []NoOverflow
<1>1. Init => NoOverflow
  <2> SUFFICES ASSUME Init PROVE NoOverflow
    OBVIOUS
  <2>1. TypeOK
    <3>1. 0 \in Int256
      BY MaxIntAssumption DEF Int256
    <3>2. receipt.from \in Addresses /\ receipt.logs = <<>>
      BY DEF Init, Addresses
    <3> QED BY <3>1, <3>2 DEF Init, TypeOK, TrustlineValue, AllowLimit
  <2>2. \A line \in Lines :
          /\ Owed(trustlines, line) = 0
          /\ LimitSet(trustlines, line) = 0
          /\ AllowSet(trustlines, line) = 0
    BY InitiallyEmpty
  <2>3. \A line \in Lines :
          replayed[line] = 0 /\ peakLimit[line] = 0 /\ peakAllow[line] = 0
    BY DEF Init
  <2>4. \A line \in Lines : Reverse(line) \in Lines
    BY DEF Lines, Reverse
  <2> QED
    BY <2>1, <2>2, <2>3, <2>4, SmallAmounts
    DEF NoOverflow, GrantsBounded, BalancesBounded, GrantsWithinPeaks,
        BalancesReplayEvents, DebtBackedByGrants
<1>2. NoOverflow /\ [Next]_vars => NoOverflow'
  <2> SUFFICES ASSUME NoOverflow, [Next]_vars PROVE NoOverflow'
    OBVIOUS
  <2> USE DEF NoOverflow
  <2>1. CASE UNCHANGED vars
    BY <2>1 DEF vars, TypeOK, GrantsBounded, BalancesBounded, GrantsWithinPeaks,
         BalancesReplayEvents, DebtBackedByGrants
  <2>2. CASE Next
    <3>1. PICK us \in Banks, them \in Addresses, ccy \in Currencies, amount \in Amounts :
            \/ SetLimit(us, them, ccy, amount)
            \/ SetAllow(us, them, ccy, amount)
            \/ RefuseNegativeGrant(us, amount)
            \/ \E messageId \in MessageIds :
                 \/ AcceptPayment(us, them, ccy, amount, messageId)
                 \/ RejectPayment(us, them, ccy, amount, messageId)
      BY <2>2 DEF Next
    <3>2. /\ trustlines \in [StoredLines -> TrustlineValue]
          /\ amount \in Int256 /\ amount <= MaxAmount
          /\ us \in Addresses
          /\ <<us, them, ccy>> \in Lines /\ <<them, us, ccy>> \in Lines
          /\ \A line \in Lines : Reverse(line) \in Lines
      BY AmountsAssumption, SmallAmounts DEF TypeOK, Addresses, Lines, Reverse
    <3>3. CASE SetLimit(us, them, ccy, amount)
      <4>1. /\ trustlines' = WithLimit(trustlines, us, them, ccy, amount)
            /\ replayed' = replayed /\ peakAllow' = peakAllow
            /\ peakLimit' = [peakLimit EXCEPT ![<<us, them, ccy>>] = Larger(@, amount)]
            /\ amount \in 0 .. MaxAmount
        BY <3>2, <3>3, SmallAmounts DEF SetLimit, Int256
      <4>2. ASSUME NEW line \in Lines
            PROVE  /\ Owed(trustlines', line) = Owed(trustlines, line)
                   /\ AllowSet(trustlines', line) = AllowSet(trustlines, line)
                   /\ LimitSet(trustlines', line) =
                        IF line = <<us, them, ccy>> THEN amount ELSE LimitSet(trustlines, line)
        <5> DEFINE after == WithLimit(trustlines, us, them, ccy, amount)
        <5>1. /\ Owed(after, line) = Owed(trustlines, line)
              /\ AllowSet(after, line) = AllowSet(trustlines, line)
              /\ LimitSet(after, line) =
                   IF line = <<us, them, ccy>> THEN amount ELSE LimitSet(trustlines, line)
          BY <3>2, LimitLine
        <5> QED BY <4>1, <5>1
      <4>3. ASSUME NEW line \in Lines
            PROVE  peakLimit'[line] \in Nat /\ peakLimit[line] <= peakLimit'[line]
                   /\ (line = <<us, them, ccy>> => amount <= peakLimit'[line])
        BY <3>2, <4>1 DEF TypeOK, Larger
      <4>4. TypeOK'
        <5>1. trustlines' \in [StoredLines -> TrustlineValue]
          BY <3>2, <4>1, StorageType
        <5>2. receipt'.from \in Addresses /\ \A i \in DOMAIN receipt'.logs : receipt'.logs[i] \in Events
          <6> DEFINE line == Stored(us, them, ccy)
                     ours == trustlines[line][WeOwe(us, them)]
                     theirs == trustlines[line][TheyOwe(us, them)]
                     e == TrustlineModified(us, them, ccy, "limit", amount,
                            ours.limit, ours.allow, theirs.allow)
          <6>1. ours \in AllowLimit /\ theirs \in AllowLimit
            BY <3>2, StoredInStorage DEF TrustlineValue, WeOwe, TheyOwe
          <6>2. e \in Events
            BY <3>2, <6>1 DEF Events, TrustlineModified, AllowLimit
          <6>3. receipt' = [from |-> us, logs |-> IF theirs.limit = amount THEN <<>> ELSE <<e>>]
            BY <3>3 DEF SetLimit, Emit
          <6>4. CASE theirs.limit = amount
            BY <3>2, <6>3, <6>4
          <6>5. CASE theirs.limit # amount
            BY <3>2, <6>2, <6>3, <6>5
          <6> QED BY <6>4, <6>5
        <5>3. peakLimit' \in [Lines -> Nat]
          BY <4>1, <4>3 DEF TypeOK
        <5> QED BY <4>1, <5>1, <5>2, <5>3 DEF TypeOK
      <4>5. GrantsBounded' /\ BalancesBounded'
        BY <4>1, <4>2 DEF GrantsBounded, BalancesBounded
      <4>6. GrantsWithinPeaks'
        BY <4>1, <4>2, <4>3, SmallAmounts DEF GrantsWithinPeaks, GrantsBounded, TypeOK
      <4>7. BalancesReplayEvents'
        BY <4>1, <4>2 DEF BalancesReplayEvents
      <4>8. DebtBackedByGrants'
        BY <3>2, <4>1, <4>2, <4>3, SmallAmounts DEF DebtBackedByGrants, BalancesBounded, TypeOK
      <4> QED BY <4>4, <4>5, <4>6, <4>7, <4>8
    <3>4. CASE SetAllow(us, them, ccy, amount)
      <4>1. /\ trustlines' = WithAllow(trustlines, us, them, ccy, amount)
            /\ replayed' = replayed /\ peakLimit' = peakLimit
            /\ peakAllow' = [peakAllow EXCEPT ![<<us, them, ccy>>] = Larger(@, amount)]
            /\ amount \in 0 .. MaxAmount
        BY <3>2, <3>4, SmallAmounts DEF SetAllow, Int256
      <4>2. ASSUME NEW line \in Lines
            PROVE  /\ Owed(trustlines', line) = Owed(trustlines, line)
                   /\ LimitSet(trustlines', line) = LimitSet(trustlines, line)
                   /\ AllowSet(trustlines', line) =
                        IF line = <<us, them, ccy>> THEN amount ELSE AllowSet(trustlines, line)
        <5> DEFINE after == WithAllow(trustlines, us, them, ccy, amount)
        <5>1. /\ Owed(after, line) = Owed(trustlines, line)
              /\ LimitSet(after, line) = LimitSet(trustlines, line)
              /\ AllowSet(after, line) =
                   IF line = <<us, them, ccy>> THEN amount ELSE AllowSet(trustlines, line)
          BY <3>2, AllowLine
        <5> QED BY <4>1, <5>1
      <4>3. ASSUME NEW line \in Lines
            PROVE  peakAllow'[line] \in Nat /\ peakAllow[line] <= peakAllow'[line]
                   /\ (line = <<us, them, ccy>> => amount <= peakAllow'[line])
        BY <3>2, <4>1 DEF TypeOK, Larger
      <4>4. TypeOK'
        <5>1. trustlines' \in [StoredLines -> TrustlineValue]
          BY <3>2, <4>1, StorageType
        <5>2. receipt'.from \in Addresses /\ \A i \in DOMAIN receipt'.logs : receipt'.logs[i] \in Events
          <6> DEFINE line == Stored(us, them, ccy)
                     ours == trustlines[line][WeOwe(us, them)]
                     theirs == trustlines[line][TheyOwe(us, them)]
                     e == TrustlineModified(line[1], line[2], ccy, "allow", theirs.limit,
                            ours.limit, amount, ours.allow)
          <6>1. ours \in AllowLimit /\ theirs \in AllowLimit
            BY <3>2, StoredInStorage DEF TrustlineValue, WeOwe, TheyOwe
          <6>2. e \in Events
            <7>1. line[1] \in Addresses /\ line[2] \in Addresses
              BY <3>2 DEF Stored
            <7> QED BY <3>2, <6>1, <7>1 DEF Events, TrustlineModified, AllowLimit
          <6>3. receipt' = [from |-> us, logs |-> IF ours.allow = amount THEN <<>> ELSE <<e>>]
            BY <3>4 DEF SetAllow, Emit
          <6>4. CASE ours.allow = amount
            BY <3>2, <6>3, <6>4
          <6>5. CASE ours.allow # amount
            BY <3>2, <6>2, <6>3, <6>5
          <6> QED BY <6>4, <6>5
        <5>3. peakAllow' \in [Lines -> Nat]
          BY <4>1, <4>3 DEF TypeOK
        <5> QED BY <4>1, <5>1, <5>2, <5>3 DEF TypeOK
      <4>5. GrantsBounded' /\ BalancesBounded'
        BY <4>1, <4>2 DEF GrantsBounded, BalancesBounded
      <4>6. GrantsWithinPeaks'
        BY <4>1, <4>2, <4>3, SmallAmounts DEF GrantsWithinPeaks, GrantsBounded, TypeOK
      <4>7. BalancesReplayEvents'
        BY <4>1, <4>2 DEF BalancesReplayEvents
      <4>8. DebtBackedByGrants'
        BY <3>2, <4>1, <4>2, <4>3, SmallAmounts DEF DebtBackedByGrants, BalancesBounded, TypeOK
      <4> QED BY <4>4, <4>5, <4>6, <4>7, <4>8
    <3>5. ASSUME NEW messageId \in MessageIds, AcceptPayment(us, them, ccy, amount, messageId)
          PROVE  NoOverflow'
      <4> DEFINE after == WithBalance(trustlines, us, them, ccy, NewAmount(us, them, ccy, amount))
                 newDebt == Owed(trustlines, <<us, them, ccy>>) + amount
      <4>1. /\ PaymentError(us, them, amount) = 0
            /\ WithinGrants(us, them, ccy, amount)
            /\ trustlines' = after
            /\ peakLimit' = peakLimit /\ peakAllow' = peakAllow
            /\ replayed' = [replayed EXCEPT ![<<us, them, ccy>>] = @ + amount,
                                            ![<<them, us, ccy>>] = @ - amount]
            /\ receipt' = [from |-> us, logs |-> <<PaymentMessage(us, them, messageId, amount, ccy),
                                                   ResultMessage(us, messageId, 0)>>]
        BY <3>5 DEF AcceptPayment, Replay, Emit
      <4>2. ASSUME NEW line \in Lines
            PROVE  /\ us # them /\ them # ZeroAddress /\ amount \in 0 .. MaxAmount
                   /\ newDebt <= LimitSet(trustlines, <<them, us, ccy>>)
                   /\ newDebt <= AllowSet(trustlines, <<us, them, ccy>>)
                   /\ Owed(trustlines', line) =
                        IF line = <<us, them, ccy>> THEN Owed(trustlines, line) + amount
                        ELSE IF line = <<them, us, ccy>> THEN Owed(trustlines, line) - amount
                        ELSE Owed(trustlines, line)
                   /\ LimitSet(trustlines', line) = LimitSet(trustlines, line)
                   /\ AllowSet(trustlines', line) = AllowSet(trustlines, line)
        <5>1. /\ us # them /\ them # ZeroAddress /\ amount \in 0 .. MaxAmount
              /\ newDebt <= LimitSet(trustlines, <<them, us, ccy>>)
              /\ newDebt <= AllowSet(trustlines, <<us, them, ccy>>)
              /\ Owed(after, line) =
                   IF line = <<us, them, ccy>> THEN Owed(trustlines, line) + amount
                   ELSE IF line = <<them, us, ccy>> THEN Owed(trustlines, line) - amount
                   ELSE Owed(trustlines, line)
              /\ LimitSet(after, line) = LimitSet(trustlines, line)
              /\ AllowSet(after, line) = AllowSet(trustlines, line)
          BY <4>1, PaymentLine DEF newDebt
        <5> QED BY <4>1, <5>1
      <4>3. /\ us # them /\ them # ZeroAddress /\ amount \in 0 .. MaxAmount
            /\ newDebt <= LimitSet(trustlines, <<them, us, ccy>>)
            /\ newDebt <= AllowSet(trustlines, <<us, them, ccy>>)
        BY <3>2, <4>2
      <4>4. Owed(trustlines, <<them, us, ccy>>) = -Owed(trustlines, <<us, them, ccy>>)
        <5>1. GetAmountOwedTo(trustlines, them, us, ccy) = -GetAmountOwedTo(trustlines, us, them, ccy)
          BY <3>2, <4>3, EqualAndOpposite
        <5> QED BY <5>1 DEF Owed
      <4>5. newDebt \in -MaxAmount .. MaxAmount
        BY <3>2, <4>3, SmallAmounts DEF GrantsBounded, BalancesBounded
      <4>6. TypeOK'
        <5>1. trustlines' \in [StoredLines -> TrustlineValue]
          <6>1. NewAmount(us, them, ccy, amount) \in Int256
            <7>1. NewAmount(us, them, ccy, amount) = IF us < them THEN -newDebt ELSE newDebt
              BY <4>3, ExactTest DEF Owed
            <7> QED BY <4>5, <7>1, SmallAmounts, MaxIntAssumption DEF Int256
          <6> QED BY <3>2, <4>1, <6>1, StorageType
        <5>2. receipt'.from \in Addresses /\ \A i \in DOMAIN receipt'.logs : receipt'.logs[i] \in Events
          <6> DEFINE e == PaymentMessage(us, them, messageId, amount, ccy)
                     r == ResultMessage(us, messageId, 0)
          <6>1. e \in Events
            BY <3>2 DEF Events, PaymentMessage
          <6>2. r \in Events
            BY DEF Events, ResultMessage
          <6> QED BY <3>2, <4>1, <6>1, <6>2
        <5>3. replayed' \in [Lines -> Int]
          BY <3>2, <4>1 DEF TypeOK, Int256
        <5> QED BY <4>1, <5>1, <5>2, <5>3 DEF TypeOK
      <4>7. GrantsBounded' /\ GrantsWithinPeaks'
        BY <4>1, <4>2 DEF GrantsBounded, GrantsWithinPeaks
      <4>8. BalancesBounded'
        <5> SUFFICES ASSUME NEW line \in Lines PROVE Owed(trustlines', line) \in -MaxAmount .. MaxAmount
          BY DEF BalancesBounded
        <5>1. Owed(trustlines, line) \in -MaxAmount .. MaxAmount
          BY DEF BalancesBounded
        <5>2. CASE line = <<us, them, ccy>>
          BY <4>2, <4>5, <5>2
        <5>3. CASE line = <<them, us, ccy>>
          <6>1. <<them, us, ccy>> # <<us, them, ccy>>
            BY <4>3
          <6>2. Owed(trustlines', line) = -newDebt
            BY <3>2, <4>2, <4>4, <5>3, <6>1, SmallAmounts DEF BalancesBounded
          <6> QED BY <4>5, <6>2, SmallAmounts
        <5>4. CASE line # <<us, them, ccy>> /\ line # <<them, us, ccy>>
          BY <4>2, <5>1, <5>4
        <5> QED BY <5>2, <5>3, <5>4
      <4>9. BalancesReplayEvents'
        <5>1. <<them, us, ccy>> # <<us, them, ccy>>
          BY <4>3
        <5> SUFFICES ASSUME NEW line \in Lines PROVE Owed(trustlines', line) = replayed'[line]
          BY DEF BalancesReplayEvents
        <5>2. Owed(trustlines, line) = replayed[line]
          BY DEF BalancesReplayEvents
        <5>3. replayed'[line] = IF line = <<us, them, ccy>> THEN replayed[line] + amount
                                ELSE IF line = <<them, us, ccy>> THEN replayed[line] - amount
                                ELSE replayed[line]
          BY <3>2, <4>1, <5>1 DEF TypeOK
        <5> QED BY <4>2, <5>2, <5>3
      <4>10. DebtBackedByGrants'
        <5> SUFFICES ASSUME NEW line \in Lines
                     PROVE  /\ Owed(trustlines', line) <= peakAllow'[line]
                            /\ Owed(trustlines', line) <= peakLimit'[Reverse(line)]
          BY DEF DebtBackedByGrants
        <5>1. /\ Owed(trustlines, line) \in Int /\ Owed(trustlines, line) <= peakAllow[line]
              /\ Owed(trustlines, line) <= peakLimit[Reverse(line)]
              /\ peakAllow[line] \in Int /\ peakLimit[Reverse(line)] \in Int
          BY <3>2, SmallAmounts DEF BalancesBounded, DebtBackedByGrants, TypeOK
        <5>2. CASE line = <<us, them, ccy>>
          <6>1. Reverse(line) = <<them, us, ccy>>
            BY <5>2 DEF Reverse
          <6>2. AllowSet(trustlines, line) <= peakAllow[line] /\ LimitSet(trustlines, Reverse(line)) <= peakLimit[Reverse(line)]
            BY <3>2 DEF GrantsWithinPeaks
          <6>3. AllowSet(trustlines, line) \in Int /\ LimitSet(trustlines, Reverse(line)) \in Int
            BY <3>2, SmallAmounts DEF GrantsBounded
          <6>4. Owed(trustlines', line) = newDebt /\ newDebt \in Int
            BY <4>2, <4>5, <5>2, SmallAmounts
          <6> QED BY <4>1, <4>3, <5>1, <5>2, <6>1, <6>2, <6>3, <6>4
        <5>3. CASE line # <<us, them, ccy>>
          <6>1. Owed(trustlines', line) \in Int /\ Owed(trustlines', line) <= Owed(trustlines, line)
            BY <4>2, <4>3, <5>1, <5>3
          <6> QED BY <4>1, <5>1, <6>1
        <5> QED BY <5>2, <5>3
      <4> QED BY <4>6, <4>7, <4>8, <4>9, <4>10
    <3>6. ASSUME RefuseNegativeGrant(us, amount)
          PROVE  NoOverflow'
      <4>1. TypeOK'
        <5>1. receipt' = [from |-> us, logs |-> <<>>]
          BY <3>6 DEF RefuseNegativeGrant, Emit
        <5>2. receipt'.from \in Addresses /\ \A i \in DOMAIN receipt'.logs : receipt'.logs[i] \in Events
          BY <3>2, <5>1
        <5> QED BY <3>6, <5>2 DEF RefuseNegativeGrant, TypeOK
      <4> QED
        BY <3>6, <4>1
        DEF RefuseNegativeGrant, GrantsBounded, BalancesBounded, GrantsWithinPeaks,
            BalancesReplayEvents, DebtBackedByGrants
    <3>7. ASSUME NEW messageId \in MessageIds, RejectPayment(us, them, ccy, amount, messageId)
          PROVE  NoOverflow'
      <4>1. TypeOK'
        <5> DEFINE error == PaymentError(us, them, amount)
                   e == ResultMessage(us, messageId, IF error = 0 THEN 4 ELSE error)
        <5>1. e \in Events
          BY DEF Events, ResultMessage, PaymentError
        <5>2. receipt' = [from |-> us, logs |-> <<e>>]
          BY <3>7 DEF RejectPayment, Emit
        <5>3. receipt'.from \in Addresses /\ \A i \in DOMAIN receipt'.logs : receipt'.logs[i] \in Events
          BY <3>2, <5>1, <5>2
        <5> QED BY <3>7, <5>3 DEF RejectPayment, TypeOK
      <4> QED
        BY <3>7, <4>1
        DEF RejectPayment, GrantsBounded, BalancesBounded, GrantsWithinPeaks,
            BalancesReplayEvents, DebtBackedByGrants
    <3> QED BY <3>1, <3>3, <3>4, <3>5, <3>6, <3>7
  <2> QED BY <2>1, <2>2
<1> QED BY <1>1, <1>2, PTL DEF Spec

-------------------------------------------------------------------------------
(* Safety properties that follow from the invariant.                       *)

\* Storage, receipts and histories keep their types in every execution of the
\* functions of the contract.
THEOREM TypeCorrect == Spec => []TypeOK
<1>1. NoOverflow => TypeOK
  BY DEF NoOverflow
<1> QED BY <1>1, NoOverflowInvariant, PTL

\* The debts sendPayment leaves behind were consented to by both parties.
THEOREM NoDebtWithoutConsent == Spec => []DebtBackedByGrants
<1>1. NoOverflow => DebtBackedByGrants
  BY DEF NoOverflow
<1> QED BY <1>1, NoOverflowInvariant, PTL

\* The PaymentMessage events of sendPayment add up to what getAmountOwedTo
\* answers at both ends of every trustline.
THEOREM EventsTellBalances == Spec => []BalancesReplayEvents
<1>1. NoOverflow => BalancesReplayEvents
  BY DEF NoOverflow
<1> QED BY <1>1, NoOverflowInvariant, PTL

\* The limit test of sendPayment is the documented one.
THEOREM LimitTestCorrect == Spec => []AcceptsExactlyWithinGrants
<1>1. NoOverflow => AcceptsExactlyWithinGrants
  <2> SUFFICES ASSUME NoOverflow, NEW us \in Banks, NEW them \in Banks,
                      NEW ccy \in Currencies, NEW amount \in Amounts, us # them, amount >= 0
               PROVE  WithinGrants(us, them, ccy, amount)
                      <=> /\ Owed(trustlines, <<us, them, ccy>>) + amount <= LimitSet(trustlines, <<them, us, ccy>>)
                          /\ Owed(trustlines, <<us, them, ccy>>) + amount <= AllowSet(trustlines, <<us, them, ccy>>)
    BY DEF AcceptsExactlyWithinGrants
  <2>1. WithinGrants(us, them, ccy, amount)
        <=> /\ GetAmountOwedTo(trustlines, us, them, ccy) + amount <= GetLimit(trustlines, them, us, ccy)
            /\ GetAmountOwedTo(trustlines, us, them, ccy) + amount <= GetAllow(trustlines, us, them, ccy)
    BY ExactTest DEF NoOverflow, Addresses
  <2> QED BY <2>1 DEF Owed, LimitSet, AllowSet
<1> QED BY <1>1, NoOverflowInvariant, PTL

-------------------------------------------------------------------------------
(* The events of setLimit.                                                 *)

\* With the limit assigned, the event that setLimit has made describes the
\* trustline, at whichever end it is stored.
LEMMA LimitEventDescribes ==
  ASSUME TypeOK, NEW us \in Banks, NEW them \in Addresses,
         NEW ccy \in Currencies, NEW amount \in Amounts,
         trustlines' = WithLimit(trustlines, us, them, ccy, amount),
         NEW tlv, tlv = trustlines[Stored(us, them, ccy)],
         NEW e, e = TrustlineModified(us, them, ccy, "limit", amount,
                      tlv[WeOwe(us, them)].limit, tlv[WeOwe(us, them)].allow,
                      tlv[TheyOwe(us, them)].allow)
  PROVE  Describes(e)'
<1> DEFINE here == Stored(us, them, ccy)
<1>1. here \in StoredLines /\ us \in Addresses
  BY StoredInStorage DEF Addresses
<1>2. trustlines \in [StoredLines -> TrustlineValue]
  BY DEF TypeOK
<1>3. trustlines' = [trustlines EXCEPT ![here][TheyOwe(us, them)].limit = amount]
  BY DEF WithLimit
<1>4. /\ e.p1 = us /\ e.p2 = them /\ e.ccy = ccy
      /\ e.forwardLimit = amount /\ e.reverseLimit = tlv[WeOwe(us, them)].limit
      /\ e.forwardAllow = tlv[WeOwe(us, them)].allow
      /\ e.reverseAllow = tlv[TheyOwe(us, them)].allow
  BY DEF TrustlineModified
<1> HIDE DEF here
<1>5. tlv = trustlines[here]
  BY DEF here
<1>6. CASE us < them
  <2>1. /\ trustlines'[here].p2OwesP1.limit = amount
        /\ trustlines'[here].p2OwesP1.allow = tlv.p2OwesP1.allow
        /\ trustlines'[here].p1OwesP2 = tlv.p1OwesP2
    BY <1>1, <1>2, <1>3, <1>5, <1>6 DEF TheyOwe, SenderIsP1Against, TrustlineValue, AllowLimit
  <2>2. /\ e.reverseLimit = tlv.p1OwesP2.limit
        /\ e.forwardAllow = tlv.p1OwesP2.allow
        /\ e.reverseAllow = tlv.p2OwesP1.allow
    BY <1>4, <1>6 DEF WeOwe, TheyOwe, SenderIsP1Against
  <2> QED
    BY <1>4, <1>6, <2>1, <2>2
    DEF Describes, GetLimit, GetReverseLimit, GetAllow, GetReverseAllow, SenderIsP1Against, here
<1>7. CASE ~(us < them)
  <2>1. /\ trustlines'[here].p1OwesP2.limit = amount
        /\ trustlines'[here].p1OwesP2.allow = tlv.p1OwesP2.allow
        /\ trustlines'[here].p2OwesP1 = tlv.p2OwesP1
    BY <1>1, <1>2, <1>3, <1>5, <1>7 DEF TheyOwe, SenderIsP1Against, TrustlineValue, AllowLimit
  <2>2. /\ e.reverseLimit = tlv.p2OwesP1.limit
        /\ e.forwardAllow = tlv.p2OwesP1.allow
        /\ e.reverseAllow = tlv.p1OwesP2.allow
    BY <1>4, <1>7 DEF WeOwe, TheyOwe, SenderIsP1Against
  <2> QED
    BY <1>4, <1>7, <2>1, <2>2
    DEF Describes, GetLimit, GetReverseLimit, GetAllow, GetReverseAllow, SenderIsP1Against, here
<1> QED
  BY <1>6, <1>7

\* No other function emits an event of type "limit".
LEMMA LimitEventsStep ==
  ASSUME TypeOK, LimitEventsDescribeTrustline, [Next]_vars
  PROVE  LimitEventsDescribeTrustline'
<1> DEFINE Fits(logs) == \A i \in DOMAIN logs : logs[i].event # "TrustlineModified" \/ logs[i].trustType = "allow"
<1>1. ASSUME NEW logs, logs = receipt'.logs, Fits(logs) PROVE LimitEventsDescribeTrustline'
  <2>1. "allow" # "limit"
    OBVIOUS
  <2> QED
    BY <1>1, <2>1 DEF LimitEventsDescribeTrustline, EventsDescribe
<1>2. Fits(<<>>)
  OBVIOUS
<1>3. ASSUME NEW us, NEW logs, Emit(us, logs), Fits(logs) PROVE LimitEventsDescribeTrustline'
  BY <1>1, <1>3 DEF Emit
<1> SUFFICES ASSUME Next PROVE LimitEventsDescribeTrustline'
  BY DEF vars, LimitEventsDescribeTrustline, EventsDescribe, Describes, GetLimit, GetReverseLimit,
         GetAllow, GetReverseAllow
<1>5. PICK us \in Banks, them \in Addresses, ccy \in Currencies, amount \in Amounts :
        \/ SetLimit(us, them, ccy, amount)
        \/ SetAllow(us, them, ccy, amount)
        \/ RefuseNegativeGrant(us, amount)
        \/ \E messageId \in MessageIds :
             \/ AcceptPayment(us, them, ccy, amount, messageId)
             \/ RejectPayment(us, them, ccy, amount, messageId)
  BY DEF Next
<1> HIDE DEF Fits
<1>6. ASSUME SetLimit(us, them, ccy, amount) PROVE LimitEventsDescribeTrustline'
  <2>1. PICK tlv : tlv = trustlines[Stored(us, them, ccy)]
    OBVIOUS
  <2>2. PICK e : e = TrustlineModified(us, them, ccy, "limit", amount,
                       tlv[WeOwe(us, them)].limit, tlv[WeOwe(us, them)].allow,
                       tlv[TheyOwe(us, them)].allow)
    OBVIOUS
  <2>3. /\ trustlines' = WithLimit(trustlines, us, them, ccy, amount)
        /\ Emit(us, <<>>) \/ receipt' = [from |-> us, logs |-> <<e>>]
    BY <1>6, <2>1, <2>2 DEF SetLimit, Emit
  <2>4. CASE Emit(us, <<>>)
    BY <1>2, <1>3, <2>4
  <2>5. CASE receipt' = [from |-> us, logs |-> <<e>>]
    <3>1. Describes(e)'
      BY <2>1, <2>2, <2>3, LimitEventDescribes
    <3>2. \A i \in DOMAIN receipt'.logs : receipt'.logs[i] = e
      BY <2>5
    <3>3. \A i \in DOMAIN receipt'.logs : Describes(receipt.logs[i])'
      BY <3>1, <3>2 DEF Describes
    <3> QED
      BY <3>3 DEF LimitEventsDescribeTrustline, EventsDescribe
  <2> QED
    BY <2>3, <2>4, <2>5
<1>7. ASSUME SetAllow(us, them, ccy, amount) PROVE LimitEventsDescribeTrustline'
  <2>1. PICK line, ours, theirs :
          \/ Emit(us, <<>>)
          \/ Emit(us, <<TrustlineModified(line[1], line[2], ccy, "allow",
                          theirs.limit, ours.limit, amount, ours.allow)>>)
    <3>1. PICK line, ours, theirs :
            /\ line = Stored(us, them, ccy)
            /\ ours = trustlines[line][WeOwe(us, them)]
            /\ theirs = trustlines[line][TheyOwe(us, them)]
      OBVIOUS
    <3> QED
      BY <1>7, <3>1 DEF SetAllow
  <2>2. PICK e : e = TrustlineModified(line[1], line[2], ccy, "allow",
                       theirs.limit, ours.limit, amount, ours.allow)
    OBVIOUS
  <2>3. e.trustType = "allow"
    BY <2>2 DEF TrustlineModified
  <2>4. Fits(<<e>>)
    BY <2>3 DEF Fits
  <2> QED
    BY <1>2, <1>3, <2>1, <2>2, <2>4
<1>8. ASSUME RefuseNegativeGrant(us, amount) PROVE LimitEventsDescribeTrustline'
  BY <1>2, <1>3, <1>8 DEF RefuseNegativeGrant
<1>9. ASSUME NEW messageId \in MessageIds, AcceptPayment(us, them, ccy, amount, messageId)
      PROVE  LimitEventsDescribeTrustline'
  <2>1. PICK e, f : /\ e = PaymentMessage(us, them, messageId, amount, ccy)
                    /\ f = ResultMessage(us, messageId, 0)
    OBVIOUS
  <2>2. e.event # "TrustlineModified" /\ f.event # "TrustlineModified"
    BY <2>1 DEF PaymentMessage, ResultMessage
  <2>3. Fits(<<e, f>>)
    BY <2>2 DEF Fits
  <2> QED
    BY <1>3, <1>9, <2>1, <2>3 DEF AcceptPayment
<1>10. ASSUME NEW messageId \in MessageIds, RejectPayment(us, them, ccy, amount, messageId)
       PROVE  LimitEventsDescribeTrustline'
  <2>1. PICK error : Emit(us, <<ResultMessage(us, messageId, error)>>)
    BY <1>10 DEF RejectPayment
  <2>2. PICK f : f = ResultMessage(us, messageId, error)
    OBVIOUS
  <2>3. f.event # "TrustlineModified"
    BY <2>2 DEF ResultMessage
  <2>4. Fits(<<f>>)
    BY <2>3 DEF Fits
  <2> QED
    BY <1>3, <2>1, <2>2, <2>4
<1> QED
  BY <1>5, <1>6, <1>7, <1>8, <1>9, <1>10

\* Whoever copies the four amounts of an event of setLimit knows the trustline
\* as it is after the transaction, whichever end set the limit.
THEOREM LimitEventsTellTrustline == Spec => []LimitEventsDescribeTrustline
<1>1. Init => LimitEventsDescribeTrustline
  BY DEF Init, LimitEventsDescribeTrustline, EventsDescribe
<1>2. TypeOK /\ LimitEventsDescribeTrustline /\ [Next]_vars => LimitEventsDescribeTrustline'
  BY LimitEventsStep
<1> QED BY <1>1, <1>2, TypeCorrect, PTL DEF Spec

-------------------------------------------------------------------------------
(* What one transaction does to the lines of the trustlines.               *)

NothingMoves == trustlines' = trustlines

OneLimitMoves(us, them, ccy, amount) ==
  /\ amount >= 0
  /\ \A line \in Lines :
       /\ Owed(trustlines', line) = Owed(trustlines, line)
       /\ AllowSet(trustlines', line) = AllowSet(trustlines, line)
       /\ LimitSet(trustlines', line) =
            IF line = <<us, them, ccy>> THEN amount ELSE LimitSet(trustlines, line)

OneAllowMoves(us, them, ccy, amount) ==
  /\ amount >= 0
  /\ \A line \in Lines :
       /\ Owed(trustlines', line) = Owed(trustlines, line)
       /\ LimitSet(trustlines', line) = LimitSet(trustlines, line)
       /\ AllowSet(trustlines', line) =
            IF line = <<us, them, ccy>> THEN amount ELSE AllowSet(trustlines, line)

OneBalanceMoves(us, them, ccy, amount) ==
  /\ us # them /\ amount >= 0
  /\ Owed(trustlines, <<us, them, ccy>>) + amount <= LimitSet(trustlines, <<them, us, ccy>>)
  /\ Owed(trustlines, <<us, them, ccy>>) + amount <= AllowSet(trustlines, <<us, them, ccy>>)
  /\ \A line \in Lines :
       /\ LimitSet(trustlines', line) = LimitSet(trustlines, line)
       /\ AllowSet(trustlines', line) = AllowSet(trustlines, line)
       /\ Owed(trustlines', line) =
            IF line = <<us, them, ccy>> THEN Owed(trustlines, line) + amount
            ELSE IF line = <<them, us, ccy>> THEN Owed(trustlines, line) - amount
            ELSE Owed(trustlines, line)

LEMMA StepOnLines ==
  ASSUME NoOverflow, Next
  PROVE  \E us \in Banks, them \in Addresses, ccy \in Currencies, amount \in Amounts :
           /\ receipt'.from = us
           /\ \/ NothingMoves
              \/ OneLimitMoves(us, them, ccy, amount)
              \/ OneAllowMoves(us, them, ccy, amount)
              \/ OneBalanceMoves(us, them, ccy, amount)
<1>1. PICK us \in Banks, them \in Addresses, ccy \in Currencies, amount \in Amounts :
        \/ SetLimit(us, them, ccy, amount)
        \/ SetAllow(us, them, ccy, amount)
        \/ RefuseNegativeGrant(us, amount)
        \/ \E messageId \in MessageIds :
             \/ AcceptPayment(us, them, ccy, amount, messageId)
             \/ RejectPayment(us, them, ccy, amount, messageId)
  BY DEF Next
<1>2. /\ trustlines \in [StoredLines -> TrustlineValue]
      /\ <<us, them, ccy>> \in Lines
  BY DEF NoOverflow, TypeOK, Addresses, Lines
<1>3. receipt'.from = us
  BY <1>1 DEF SetLimit, SetAllow, RefuseNegativeGrant, AcceptPayment, RejectPayment, Emit
<1>4. ASSUME SetLimit(us, them, ccy, amount)
      PROVE  OneLimitMoves(us, them, ccy, amount)
  <2> DEFINE after == WithLimit(trustlines, us, them, ccy, amount)
  <2>1. trustlines' = after /\ amount >= 0
    BY <1>4 DEF SetLimit
  <2>2. ASSUME NEW line \in Lines
        PROVE  /\ Owed(after, line) = Owed(trustlines, line)
               /\ AllowSet(after, line) = AllowSet(trustlines, line)
               /\ LimitSet(after, line) =
                    IF line = <<us, them, ccy>> THEN amount ELSE LimitSet(trustlines, line)
    BY <1>2, LimitLine
  <2> QED BY <2>1, <2>2 DEF OneLimitMoves
<1>5. ASSUME SetAllow(us, them, ccy, amount)
      PROVE  OneAllowMoves(us, them, ccy, amount)
  <2> DEFINE after == WithAllow(trustlines, us, them, ccy, amount)
  <2>1. trustlines' = after /\ amount >= 0
    BY <1>5 DEF SetAllow
  <2>2. ASSUME NEW line \in Lines
        PROVE  /\ Owed(after, line) = Owed(trustlines, line)
               /\ LimitSet(after, line) = LimitSet(trustlines, line)
               /\ AllowSet(after, line) =
                    IF line = <<us, them, ccy>> THEN amount ELSE AllowSet(trustlines, line)
    BY <1>2, AllowLine
  <2> QED BY <2>1, <2>2 DEF OneAllowMoves
<1>6. ASSUME NEW messageId \in MessageIds, AcceptPayment(us, them, ccy, amount, messageId)
      PROVE  OneBalanceMoves(us, them, ccy, amount)
  <2> DEFINE after == WithBalance(trustlines, us, them, ccy, NewAmount(us, them, ccy, amount))
  <2>1. /\ trustlines' = after
        /\ PaymentError(us, them, amount) = 0 /\ WithinGrants(us, them, ccy, amount)
    BY <1>6 DEF AcceptPayment
  <2>2. ASSUME NEW line \in Lines
        PROVE  /\ us # them /\ them # ZeroAddress /\ amount \in 0 .. MaxAmount
               /\ Owed(trustlines, <<us, them, ccy>>) + amount <= LimitSet(trustlines, <<them, us, ccy>>)
               /\ Owed(trustlines, <<us, them, ccy>>) + amount <= AllowSet(trustlines, <<us, them, ccy>>)
               /\ Owed(after, line) =
                    IF line = <<us, them, ccy>> THEN Owed(trustlines, line) + amount
                    ELSE IF line = <<them, us, ccy>> THEN Owed(trustlines, line) - amount
                    ELSE Owed(trustlines, line)
               /\ LimitSet(after, line) = LimitSet(trustlines, line)
               /\ AllowSet(after, line) = AllowSet(trustlines, line)
    BY <2>1, PaymentLine DEF NoOverflow
  <2>3. us # them /\ amount >= 0
    BY <1>2, <2>2, SmallAmounts
  <2> QED BY <1>2, <2>1, <2>2, <2>3 DEF OneBalanceMoves
<1>7. RefuseNegativeGrant(us, amount) => NothingMoves
  BY DEF RefuseNegativeGrant, NothingMoves
<1>8. ASSUME NEW messageId \in MessageIds, RejectPayment(us, them, ccy, amount, messageId)
      PROVE  NothingMoves
  BY <1>8 DEF RejectPayment, NothingMoves
<1> QED BY <1>1, <1>3, <1>4, <1>5, <1>6, <1>7, <1>8

\* No transaction but the debtor's own raises a debt.
THEOREM DebtRaisedByDebtor == Spec => OnlyDebtorRaisesDebt
<1>1. ASSUME NoOverflow, [Next]_vars, NEW line \in Lines,
             Owed(trustlines', line) > Owed(trustlines, line)
      PROVE  receipt'.from = line[1]
  <2>0. Owed(trustlines, line) \in Int
    BY <1>1, SmallAmounts DEF NoOverflow, BalancesBounded
  <2>1. CASE UNCHANGED vars
    BY <1>1, <2>0, <2>1 DEF vars
  <2>2. CASE Next
    <3>1. PICK us \in Banks, them \in Addresses, ccy \in Currencies, amount \in Amounts :
            /\ receipt'.from = us
            /\ \/ NothingMoves
               \/ OneLimitMoves(us, them, ccy, amount)
               \/ OneAllowMoves(us, them, ccy, amount)
               \/ OneBalanceMoves(us, them, ccy, amount)
      BY <1>1, <2>2, StepOnLines
    <3>2. ~ NothingMoves
      BY <1>1, <2>0 DEF NothingMoves
    <3>3. ~ OneLimitMoves(us, them, ccy, amount) /\ ~ OneAllowMoves(us, them, ccy, amount)
      BY <1>1, <2>0 DEF OneLimitMoves, OneAllowMoves
    <3>4. ASSUME OneBalanceMoves(us, them, ccy, amount)
          PROVE  line = <<us, them, ccy>>
      <4>1. amount \in Int /\ amount >= 0
        BY <3>4, AmountsAssumption DEF OneBalanceMoves, Int256
      <4> QED BY <1>1, <2>0, <3>4, <4>1 DEF OneBalanceMoves
    <3> QED BY <3>1, <3>2, <3>3, <3>4
  <2> QED BY <1>1, <2>1, <2>2
<1>2. NoOverflow /\ [Next]_vars =>
        [\A line \in Lines : Owed(trustlines', line) > Owed(trustlines, line) => receipt'.from = line[1]]_vars
  BY <1>1
<1> QED BY <1>2, NoOverflowInvariant, PTL DEF Spec, OnlyDebtorRaisesDebt

\* Limits change in transactions of their creditor alone, allowances in those
\* of their debtor alone.
THEOREM GrantsChangedByGrantor == Spec => GrantsChangedOnlyByGrantor
<1>1. ASSUME NoOverflow, [Next]_vars, NEW line \in Lines,
             \/ LimitSet(trustlines', line) # LimitSet(trustlines, line)
             \/ AllowSet(trustlines', line) # AllowSet(trustlines, line)
      PROVE  receipt'.from = line[1]
  <2>1. CASE UNCHANGED vars
    BY <1>1, <2>1 DEF vars
  <2>2. CASE Next
    <3>1. PICK us \in Banks, them \in Addresses, ccy \in Currencies, amount \in Amounts :
            /\ receipt'.from = us
            /\ \/ NothingMoves
               \/ OneLimitMoves(us, them, ccy, amount)
               \/ OneAllowMoves(us, them, ccy, amount)
               \/ OneBalanceMoves(us, them, ccy, amount)
      BY <1>1, <2>2, StepOnLines
    <3>2. ~ NothingMoves
      BY <1>1 DEF NothingMoves
    <3>3. ~ OneBalanceMoves(us, them, ccy, amount)
      BY <1>1 DEF OneBalanceMoves
    <3>4. OneLimitMoves(us, them, ccy, amount) => line = <<us, them, ccy>>
      BY <1>1 DEF OneLimitMoves
    <3>5. OneAllowMoves(us, them, ccy, amount) => line = <<us, them, ccy>>
      BY <1>1 DEF OneAllowMoves
    <3> QED BY <3>1, <3>2, <3>3, <3>4, <3>5
  <2> QED BY <1>1, <2>1, <2>2
<1>2. NoOverflow /\ [Next]_vars =>
        [\A line \in Lines :
           \/ LimitSet(trustlines', line) # LimitSet(trustlines, line)
           \/ AllowSet(trustlines', line) # AllowSet(trustlines, line)
           => receipt'.from = line[1]]_vars
  BY <1>1
<1> QED BY <1>2, NoOverflowInvariant, PTL DEF Spec, GrantsChangedOnlyByGrantor

-------------------------------------------------------------------------------
(* The contract implements the trustlines of the domain class.             *)

\* Read through its getters, every execution of the contract is one of the
\* class TrustlineValue with its unbounded numbers: negative arguments,
\* refusals and trustlines with oneself are stuttering steps.
THEOREM Implementation == Spec => ImplementsTrustlineValue
<1>1. Init => Promise!Init
  <2> SUFFICES ASSUME Init PROVE Promise!Init
    OBVIOUS
  <2>1. \A line \in DistinctLines :
          /\ Owed(trustlines, Reverse(line)) = 0
          /\ LimitSet(trustlines, line) = 0
          /\ AllowSet(trustlines, line) = 0
    BY InitiallyEmpty DEF DistinctLines, Lines, Reverse
  <2>2. Promise!Lines = DistinctLines
    BY DEF Promise!Lines, DistinctLines, Lines
  <2> QED BY <2>1, <2>2 DEF Promise!Init
<1>2. ASSUME NoOverflow, [Next]_vars
      PROVE  [Promise!Next]_(Promise!vars)
  <2>1. CASE UNCHANGED vars
    BY <2>1 DEF vars, Promise!vars
  <2>2. CASE Next
    <3>1. PICK us \in Banks, them \in Addresses, ccy \in Currencies, amount \in Amounts :
            /\ receipt'.from = us
            /\ \/ NothingMoves
               \/ OneLimitMoves(us, them, ccy, amount)
               \/ OneAllowMoves(us, them, ccy, amount)
               \/ OneBalanceMoves(us, them, ccy, amount)
      BY <1>2, <2>2, StepOnLines
    <3> DEFINE here == <<us, them, ccy>>
               there == <<them, us, ccy>>
    <3>2. /\ us \in Addresses
          /\ here \in Lines /\ there \in Lines
          /\ us # them => here \in DistinctLines /\ there \in DistinctLines
          /\ Promise!Reverse(there) = here
          /\ Reverse(here) = there /\ Reverse(there) = here
          /\ \A line \in DistinctLines : Reverse(line) \in Lines /\ Reverse(Reverse(line)) = line
          /\ Promise!Lines = DistinctLines
          /\ DistinctLines \subseteq Lines
          /\ us = them => here \notin DistinctLines
      BY DEF Addresses, Lines, DistinctLines, Reverse, Promise!Reverse, Promise!Lines
    <3>3. CASE NothingMoves
      BY <3>3 DEF NothingMoves, Promise!vars
    <3>4. CASE OneLimitMoves(us, them, ccy, amount)
      <4>1. \A line \in DistinctLines :
              /\ Owed(trustlines', Reverse(line)) = Owed(trustlines, Reverse(line))
              /\ AllowSet(trustlines', line) = AllowSet(trustlines, line)
              /\ LimitSet(trustlines', line) =
                   IF line = here THEN amount ELSE LimitSet(trustlines, line)
        BY <3>2, <3>4 DEF OneLimitMoves
      <4>2. CASE us = them
        <5>1. \A line \in DistinctLines : LimitSet(trustlines', line) = LimitSet(trustlines, line)
          BY <3>2, <4>1, <4>2
        <5> QED BY <4>1, <5>1 DEF Promise!vars
      <4>3. CASE us # them
        <5>1. Promise!SetLimit(here, amount)
          BY <3>2, <3>4, <4>1, <4>3 DEF OneLimitMoves, Promise!SetLimit
        <5> QED BY <3>2, <4>3, <5>1 DEF Promise!Next
      <4> QED BY <4>2, <4>3
    <3>5. CASE OneAllowMoves(us, them, ccy, amount)
      <4>1. \A line \in DistinctLines :
              /\ Owed(trustlines', Reverse(line)) = Owed(trustlines, Reverse(line))
              /\ LimitSet(trustlines', line) = LimitSet(trustlines, line)
              /\ AllowSet(trustlines', line) =
                   IF line = here THEN amount ELSE AllowSet(trustlines, line)
        BY <3>2, <3>5 DEF OneAllowMoves
      <4>2. CASE us = them
        <5>1. \A line \in DistinctLines : AllowSet(trustlines', line) = AllowSet(trustlines, line)
          BY <3>2, <4>1, <4>2
        <5> QED BY <4>1, <5>1 DEF Promise!vars
      <4>3. CASE us # them
        <5>1. Promise!SetAllow(here, amount)
          BY <3>2, <3>5, <4>1, <4>3 DEF OneAllowMoves, Promise!SetAllow
        <5> QED BY <3>2, <4>3, <5>1 DEF Promise!Next
      <4> QED BY <4>2, <4>3
    <3>6. CASE OneBalanceMoves(us, them, ccy, amount)
      <4> DEFINE newDebt == Owed(trustlines, here) + amount
      <4>1. us # them /\ amount >= 0
        BY <3>6 DEF OneBalanceMoves
      <4>2. \A line \in DistinctLines :
              /\ LimitSet(trustlines', line) = LimitSet(trustlines, line)
              /\ AllowSet(trustlines', line) = AllowSet(trustlines, line)
              /\ Owed(trustlines', Reverse(line)) =
                   IF line = there THEN newDebt
                   ELSE IF line = here THEN Owed(trustlines, there) - amount
                   ELSE Owed(trustlines, Reverse(line))
        <5> SUFFICES ASSUME NEW line \in DistinctLines
                     PROVE  /\ LimitSet(trustlines', line) = LimitSet(trustlines, line)
                            /\ AllowSet(trustlines', line) = AllowSet(trustlines, line)
                            /\ Owed(trustlines', Reverse(line)) =
                                 IF line = there THEN newDebt
                                 ELSE IF line = here THEN Owed(trustlines, there) - amount
                                 ELSE Owed(trustlines, Reverse(line))
          OBVIOUS
        <5>1. (Reverse(line) = here <=> line = there) /\ (Reverse(line) = there <=> line = here)
          BY <3>2
        <5>2. Owed(trustlines', Reverse(line)) =
                IF Reverse(line) = here THEN Owed(trustlines, Reverse(line)) + amount
                ELSE IF Reverse(line) = there THEN Owed(trustlines, Reverse(line)) - amount
                ELSE Owed(trustlines, Reverse(line))
          BY <3>2, <3>6 DEF OneBalanceMoves
        <5> QED BY <3>2, <3>6, <5>1, <5>2 DEF OneBalanceMoves
      <4>3. Owed(trustlines, there) - amount = -newDebt
        <5>1. /\ GetAmountOwedTo(trustlines, us, them, ccy) \in -MaxAmount .. MaxAmount
              /\ GetAmountOwedTo(trustlines, them, us, ccy) = -GetAmountOwedTo(trustlines, us, them, ccy)
          BY <1>2, <3>2, <4>1, EqualAndOpposite DEF NoOverflow
        <5> QED BY <5>1, SmallAmounts, AmountsAssumption DEF Owed, Int256
      <4>4. here # there
        BY <4>1
      <4>5. [line \in DistinctLines |-> Owed(trustlines', Reverse(line))] =
              [[line \in DistinctLines |-> Owed(trustlines, Reverse(line))]
                 EXCEPT ![there] = newDebt, ![here] = -newDebt]
        BY <3>2, <4>1, <4>2, <4>3, <4>4
      <4>6. newDebt <= LimitSet(trustlines, there) /\ newDebt <= AllowSet(trustlines, here)
        BY <3>6 DEF OneBalanceMoves
      <4>7. Promise!SendPayment(there, amount)
        BY <3>2, <4>1, <4>2, <4>5, <4>6 DEF Promise!SendPayment
      <4> QED BY <3>2, <4>1, <4>7 DEF Promise!Next
    <3> QED BY <3>1, <3>3, <3>4, <3>5, <3>6
  <2> QED BY <1>2, <2>1, <2>2
<1> QED BY <1>1, <1>2, NoOverflowInvariant, PTL DEF Spec, ImplementsTrustlineValue, Promise!Spec

===============================================================================
