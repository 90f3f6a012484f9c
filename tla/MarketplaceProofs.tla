------------------------- MODULE MarketplaceProofs -------------------------
(***************************************************************************)
(* Proofs about the marketplace program, for any number of parties and     *)
(* accounts, any rates and any word size: prices, types, what accounts     *)
(* rest on, and the books of the escrow accounts, with the laws of finite  *)
(* sums that they are made of.                                             *)
(***************************************************************************)
EXTENDS Marketplace, FiniteSetTheorems, WellFoundedInduction, TLAPS

(***************************************************************************)
(* Prices                                                                  *)
(***************************************************************************)

\* Rounding and wrapping around only ever make a share smaller.
LEMMA ShareIsSmaller ==
    ASSUME NEW price \in Nat, NEW rate \in 0 .. MICROS
    PROVE  /\ commission_tokens(price, rate) \in Nat
           /\ commission_tokens(price, rate) <= price
<1> DEFINE x == price * rate
           w == x % U64
<1>0. U64 \in Nat \ {0} /\ MICROS \in Nat \ {0}  BY UnitAssumption
<1>1. rate \in Nat /\ rate <= MICROS  BY <1>0
<1>2. x \in Nat  BY <1>1
<1>3. x <= price * MICROS
  <2>1. \A a, b, c \in Nat : b <= c => a * b <= a * c  OBVIOUS
  <2> QED  BY <2>1, <1>0, <1>1
<1>4. w \in Nat /\ w <= x
  <2> HIDE DEF x
  <2> QED  BY <1>0, <1>2
<1>5. w <= price * MICROS  BY <1>0, <1>2, <1>3, <1>4
<1>6. \A q \in Nat, p \in Nat, m \in Nat \ {0} : q <= p * m => q \div m \in Nat /\ q \div m <= p
  <2> SUFFICES ASSUME NEW q \in Nat, NEW p \in Nat, NEW m \in Nat \ {0}, q <= p * m
               PROVE  q \div m \in Nat /\ q \div m <= p
      OBVIOUS
  <2>1. q \div m \in Nat /\ m * (q \div m) <= q  OBVIOUS
  <2>2. \A d \in Nat : d > p => m * d > p * m  OBVIOUS
  <2> QED  BY <2>1, <2>2
<1>7. commission_tokens(price, rate) = w \div MICROS  BY DEF commission_tokens
<1> HIDE DEF w
<1> QED  BY <1>0, <1>4, <1>5, <1>6, <1>7

\* A price is a word, whatever the usage.
LEMMA PriceIsAWord ==
    ASSUME NEW rates \in [Category -> Nat], NEW usage \in [Category -> Nat]
    PROVE  calc_usage(rates, usage) \in 0 .. U64 - 1
<1>0. /\ U64 \in Nat \ {0} /\ U128 \in Nat \ {0} /\ MICROS \in Nat \ {0}
      /\ TERA \in Nat \ {0} /\ GIGABYTE_MONTH \in Nat \ {0} /\ GIGABYTE \in Nat \ {0}
    BY UnitAssumption
<1>1. \A a, b \in Nat, m \in Nat \ {0} : a * b \in Nat /\ a % m \in Nat /\ a \div m \in Nat
    OBVIOUS
<1>2. \A a, b \in Nat, m \in Nat \ {0} : Wide(a, b, m) \in Nat
  <2> SUFFICES ASSUME NEW a \in Nat, NEW b \in Nat, NEW m \in Nat \ {0}
               PROVE  Wide(a, b, m) \in Nat
      OBVIOUS
  <2>1. a * b \in Nat  BY <1>1
  <2>2. (a * b) % U128 \in Nat  BY <1>0, <1>1, <2>1
  <2>3. ((a * b) % U128) \div m \in Nat  BY <1>1, <2>2
  <2> QED  BY <1>0, <1>1, <2>3 DEF Wide
<1>3. \A a, b \in Nat, m \in Nat \ {0} : Narrow(a, b, m) \in Nat
  <2> SUFFICES ASSUME NEW a \in Nat, NEW b \in Nat, NEW m \in Nat \ {0}
               PROVE  Narrow(a, b, m) \in Nat
      OBVIOUS
  <2>1. a * b \in Nat  BY <1>1
  <2>2. (a * b) % U64 \in Nat  BY <1>0, <1>1, <2>1
  <2> QED  BY <1>1, <2>2 DEF Narrow
<1>4. \A c \in Category : rates[c] \in Nat /\ usage[c] \in Nat  OBVIOUS
<1> DEFINE f == Wide(rates["function_mb_instructions"], usage["function_mb_instructions"], TERA)
           b == Wide(rates["db_bytes_seconds"], usage["db_bytes_seconds"], GIGABYTE_MONTH)
           r == Narrow(rates["db_reads"], usage["db_reads"], MICROS)
           w == Narrow(rates["db_writes"], usage["db_writes"], MICROS)
           g == Narrow(rates["gateway_requests"], usage["gateway_requests"], MICROS)
           t == Narrow(rates["gateway_traffic_bytes"], usage["gateway_traffic_bytes"], GIGABYTE)
<1>5. f \in Nat /\ b \in Nat  BY <1>0, <1>2, <1>4, Zenon DEF Category
<1>6. r \in Nat /\ w \in Nat /\ g \in Nat /\ t \in Nat  BY <1>0, <1>3, <1>4, Zenon DEF Category
<1>7. calc_usage(rates, usage) = (f + b + r + w + g + t) % U64  BY DEF calc_usage
<1> HIDE DEF f, b, r, w, g, t
<1>8. f + b + r + w + g + t \in Nat  BY <1>5, <1>6
<1>9. \A a \in Nat : a % U64 \in 0 .. U64 - 1  BY <1>0
<1> QED  BY <1>7, <1>8, <1>9

\* update_usage: provider and commission share the price, and nothing is left
\* over or wraps around, although their computation may overflow a word.
THEOREM PriceIsShared ==
    ASSUME NEW price \in 0 .. U64 - 1, NEW rate \in 0 .. MICROS
    PROVE  /\ commission_tokens(price, rate) \in Nat
           /\ provider_tokens(price, rate) \in Nat
           /\ provider_tokens(price, rate) + commission_tokens(price, rate) = price
<1> DEFINE c == commission_tokens(price, rate)
<1>1. U64 \in Nat \ {0}  BY UnitAssumption
<1>2. price \in Nat /\ price < U64  BY <1>1
<1>3. c \in Nat /\ c <= price  BY <1>2, ShareIsSmaller
<1>4. provider_tokens(price, rate) = (price - c) % U64  BY DEF provider_tokens
<1> HIDE DEF c
<1>5. price - c \in 0 .. U64 - 1  BY <1>1, <1>2, <1>3
<1>6. \A a \in 0 .. U64 - 1 : a % U64 = a  BY <1>1
<1>7. provider_tokens(price, rate) = price - c  BY <1>4, <1>5, <1>6
<1> QED  BY <1>2, <1>3, <1>7 DEF c

(***************************************************************************)
(* Token accounts                                                          *)
(***************************************************************************)
LEMMA AccountsAreThere ==
    /\ \A p \in Provider : Wallet(p) \in TokenAccount
    /\ \A u \in User : Wallet(u) \in TokenAccount
    /\ \A u \in User, p \in Provider : Escrow(u, p) \in EscrowAccount
    /\ EscrowAccount \subseteq TokenAccount
    /\ Deposit \in TokenAccount /\ Commission \in TokenAccount
BY DEF TokenAccount, WalletAccount, EscrowAccount

\* A transfer of what is there keeps every balance a natural number.
LEMMA TransferType ==
    ASSUME NEW b \in [TokenAccount -> Nat], NEW from \in TokenAccount, NEW to \in TokenAccount,
           NEW amount \in Nat, b[from] >= amount
    PROVE  Transfer(b, from, to, amount) \in [TokenAccount -> Nat]
BY DEF Transfer

LEMMA EscrowOfType == \A s \in Stack : EscrowOf(s) \in EscrowAccount
BY AccountsAreThere, OwnershipAssumption DEF EscrowOf

LEMMA ChargeType ==
    ASSUME TypeOK, NEW s \in Stack, NEW price \in 0 .. U64 - 1, Charge(s, price)
    PROVE  balance' \in [TokenAccount -> Nat]
<1> DEFINE rate == state.commission_rate_micros
           wallet == Wallet(ProviderOf[RegionOf[s]])
           paid == Transfer(balance, EscrowOf(s), wallet, provider_tokens(price, rate))
<1>1. rate \in 0 .. MICROS /\ balance \in [TokenAccount -> Nat]  BY DEF TypeOK
<1>2. /\ provider_tokens(price, rate) \in Nat
      /\ commission_tokens(price, rate) \in Nat
    BY <1>1, PriceIsShared
<1>3. EscrowOf(s) \in TokenAccount /\ wallet \in TokenAccount /\ Commission \in TokenAccount
    BY EscrowOfType, AccountsAreThere, OwnershipAssumption
<1>4. /\ balance[EscrowOf(s)] >= provider_tokens(price, rate)
      /\ paid[EscrowOf(s)] >= commission_tokens(price, rate)
      /\ balance' = Transfer(paid, EscrowOf(s), Commission, commission_tokens(price, rate))
    BY DEF Charge
<1> HIDE DEF rate, wallet
<1>5. paid \in [TokenAccount -> Nat]  BY <1>1, <1>2, <1>3, <1>4, TransferType
<1> HIDE DEF paid
<1> QED  BY <1>2, <1>3, <1>4, <1>5, TransferType

(***************************************************************************)
(* Type correctness.  That no balance becomes negative is the part that    *)
(* needs the theorem on prices.                                            *)
(***************************************************************************)
LEMMA TypeInit == Init => TypeOK
<1> SUFFICES ASSUME Init PROVE TypeOK  OBVIOUS
<1>1. balance \in [TokenAccount -> Nat]  BY BoundsAssumption DEF Init
<1>2. state \in [initialized : BOOLEAN, commission_rate_micros : 0 .. MICROS,
                 provider_deposit : Nat]
    BY UnitAssumption DEF Init, Uninitialized
<1> QED  BY <1>1, <1>2 DEF Init, TypeOK, NoProvider, NoRegion

\* Authorizing a provider (authorize_provider) keeps the shape of its account.
LEMMA AuthorizationType ==
    ASSUME NEW f \in [Provider -> [exists : BOOLEAN, authorized : BOOLEAN, deposit : Nat]],
           NEW p \in Provider
    PROVE  [f EXCEPT ![p].authorized = TRUE]
               \in [Provider -> [exists : BOOLEAN, authorized : BOOLEAN, deposit : Nat]]
<1> DEFINE Account == [exists : BOOLEAN, authorized : BOOLEAN, deposit : Nat]
<1>1. f \in [Provider -> Account] /\ f[p] \in Account  OBVIOUS
<1>2. [f[p] EXCEPT !.authorized = TRUE] \in Account  BY <1>1, Zenon
<1>3. ASSUME NEW a \in Account  PROVE [f EXCEPT ![p] = a] \in [Provider -> Account]
  <2> HIDE DEF Account
  <2> QED  BY <1>1, <1>3
<1> QED  BY <1>2, <1>3, Zenon

LEMMA TypeStep == TypeOK /\ [Next]_vars => TypeOK'
<1> SUFFICES ASSUME TypeOK, [Next]_vars PROVE TypeOK'  OBVIOUS
<1>1. ASSUME NEW c \in 0 .. MICROS + 1, NEW d \in 0 .. MaxDeposit, initialize(c, d)
      PROVE  TypeOK'
    BY <1>1, UnitAssumption, BoundsAssumption DEF TypeOK, initialize, parties, services, money
<1>2. ASSUME NEW d \in 0 .. MaxDeposit, update_provider_deposit(d)
      PROVE  TypeOK'
    BY <1>2, BoundsAssumption DEF TypeOK, update_provider_deposit, parties, services, money
<1>3. ASSUME NEW x \in Authorizer, create_provider_authorizer(x)
      PROVE  TypeOK'
    BY <1>3 DEF TypeOK, create_provider_authorizer, parties, services, money
<1>4. ASSUME NEW p \in Provider, create_provider(p)
      PROVE  TypeOK'
  <2>1. balance' \in [TokenAccount -> Nat]
      BY <1>4, AccountsAreThere, TransferType DEF TypeOK, create_provider
  <2>2. providers' \in [Provider -> [exists : BOOLEAN, authorized : BOOLEAN, deposit : Nat]]
      BY <1>4 DEF TypeOK, create_provider
  <2> QED  BY <1>4, <2>1, <2>2 DEF TypeOK, create_provider, services
<1>5. ASSUME NEW p \in Provider, NEW x \in Authorizer, authorize_provider(x, p)
      PROVE  TypeOK'
  <2>1. providers' \in [Provider -> [exists : BOOLEAN, authorized : BOOLEAN, deposit : Nat]]
      BY <1>5, AuthorizationType, SMTT(30) DEF TypeOK, authorize_provider
  <2> QED  BY <1>5, <2>1 DEF TypeOK, authorize_provider, services, money
<1>6. ASSUME NEW r \in Region, NEW rates \in Rates, create_region(r, rates)
      PROVE  TypeOK'
    BY <1>6 DEF TypeOK, create_region, CreateRegion, parties, services, money
<1>7. ASSUME NEW r \in Region, create_authorized_usage_signer(r)
      PROVE  TypeOK'
    BY <1>7 DEF TypeOK, create_authorized_usage_signer, CreateAuthorizedUsageSigner,
           parties, services, money
<1>8. ASSUME NEW s \in Stack, create_stack(s)
      PROVE  TypeOK'
    BY <1>8 DEF TypeOK, create_stack, CreateStack, parties, services, money
<1>9. ASSUME NEW s \in Stack, update_stack(s)
      PROVE  TypeOK'
    BY <1>9 DEF TypeOK, update_stack, parties, services, money
<1>10. ASSUME NEW s \in Stack, delete_stack(s)
      PROVE  TypeOK'
    BY <1>10 DEF TypeOK, delete_stack, parties, services, money
<1>11. ASSUME NEW key \in User \X Signer \X Region, create_api_request_signer(key)
      PROVE  TypeOK'
    BY <1>11 DEF TypeOK, create_api_request_signer, SignerBecomes, parties, services, money
<1>12. ASSUME NEW key \in User \X Signer \X Region, activate_api_request_signer(key)
      PROVE  TypeOK'
    BY <1>12 DEF TypeOK, activate_api_request_signer, SignerBecomes, parties, services, money
<1>13. ASSUME NEW key \in User \X Signer \X Region, deactivate_api_request_signer(key)
      PROVE  TypeOK'
    BY <1>13 DEF TypeOK, deactivate_api_request_signer, SignerBecomes, parties, services, money
<1>14. ASSUME NEW u \in User, NEW p \in Provider, create_provider_escrow_account(u, p)
      PROVE  TypeOK'
    BY <1>14, AccountsAreThere DEF TypeOK, create_provider_escrow_account, parties,
           services, money
<1>15. ASSUME NEW u \in User, NEW p \in Provider, NEW amount \in 1 .. MaxTokens,
             recharge(u, p, amount)
      PROVE  TypeOK'
  <2>1. amount \in Nat  BY BoundsAssumption
  <2>2. balance' \in [TokenAccount -> Nat]
      BY <1>15, <2>1, AccountsAreThere, TransferType, Zenon DEF TypeOK, recharge
  <2>3. paid_in' \in [EscrowAccount -> Int]
      BY <1>15, <2>1, AccountsAreThere DEF TypeOK, recharge
  <2> QED  BY <1>15, <2>2, <2>3 DEF TypeOK, recharge, parties, services
<1>16. ASSUME NEW u \in User, NEW p \in Provider, NEW amount \in 1 .. MaxTokens,
             withdraw_escrow_balance(u, p, amount)
      PROVE  TypeOK'
  <2>1. amount \in Nat  BY BoundsAssumption
  <2>2. balance' \in [TokenAccount -> Nat]
      BY <1>16, <2>1, AccountsAreThere, TransferType, Zenon DEF TypeOK, withdraw_escrow_balance
  <2>3. paid_in' \in [EscrowAccount -> Int]
      BY <1>16, <2>1, AccountsAreThere DEF TypeOK, withdraw_escrow_balance
  <2> QED  BY <1>16, <2>2, <2>3 DEF TypeOK, withdraw_escrow_balance, parties, services
<1>17. ASSUME NEW s \in Stack, NEW seed \in Seed, NEW usage \in Usage,
             update_usage(s, seed, usage)
      PROVE  TypeOK'
  <2> DEFINE rates == regions[RegionOf[s]].rates
  <2>1. rates \in [Category -> Nat] /\ usage \in [Category -> Nat]
      BY RatesAssumption, OwnershipAssumption DEF TypeOK, NoUsage
  <2>2. calc_usage(rates, usage) \in 0 .. U64 - 1  BY <2>1, PriceIsAWord
  <2>3. Charge(s, calc_usage(rates, usage))  BY <1>17 DEF update_usage
  <2>4. balance' \in [TokenAccount -> Nat]  BY <2>2, <2>3, ChargeType
  <2>5. usage_updates' \in [Stack \X Seed -> Usage \cup {NoReport}]
      BY <1>17, Zenon DEF TypeOK, update_usage
  <2> QED  BY <1>17, <2>4, <2>5 DEF TypeOK, update_usage, parties, services
<1>18. CASE UNCHANGED vars
    BY <1>18 DEF TypeOK, vars, parties, services, money
<1> QED  BY <1>1, <1>2, <1>3, <1>4, <1>5, <1>6, <1>7, <1>8, <1>9,
            <1>10, <1>11, <1>12, <1>13, <1>14, <1>15, <1>16, <1>17, <1>18 DEF Next

\* Every state has its types: in particular no transfer overdraws an account.
THEOREM TypeCorrect == Spec => []TypeOK
<1>1. Init => TypeOK  BY TypeInit
<1>2. TypeOK /\ [Next]_vars => TypeOK'  BY TypeStep
<1> QED  BY <1>1, <1>2, PTL DEF Spec

(***************************************************************************)
(* Accounts rest on each other.  Instructions never take an account, an    *)
(* authorization or an escrow away; with that, each conjunct of the        *)
(* invariant is a matter of the instruction that creates the account.      *)
(***************************************************************************)
LEMMA ServedInit == Init => ServedByAuthorizedProviders
BY DEF Init, ServedByAuthorizedProviders, RegionsAreAuthorized, ProvidersExist,
       StacksHaveRegions, SignersHaveRegions, ReportsAreBacked, Absent, NoProvider, NoRegion

\* What there is stays.
Grows ==
    /\ \A p \in Provider : /\ providers[p].exists => providers'[p].exists
                           /\ providers[p].authorized => providers'[p].authorized
    /\ \A r \in Region : regions[r].exists => regions'[r].exists
    /\ usage_signers \subseteq usage_signers'
    /\ \A s \in Stack : Absent(s)' => Absent(s)
    /\ escrows \subseteq escrows'

LEMMA GrowsStep == TypeOK /\ ProvidersExist /\ [Next]_vars => Grows
<1> SUFFICES ASSUME TypeOK, ProvidersExist, [Next]_vars PROVE Grows  OBVIOUS
<1>1. ASSUME NEW c \in 0 .. MICROS + 1, NEW d \in 0 .. MaxDeposit, initialize(c, d)
      PROVE  Grows
    BY <1>1 DEF TypeOK, Grows, Absent, initialize,
           parties, services, money
<1>2. ASSUME NEW d \in 0 .. MaxDeposit, update_provider_deposit(d)
      PROVE  Grows
    BY <1>2 DEF TypeOK, Grows, Absent, update_provider_deposit,
           parties, services, money
<1>3. ASSUME NEW x \in Authorizer, create_provider_authorizer(x)
      PROVE  Grows
    BY <1>3 DEF TypeOK, Grows, Absent, create_provider_authorizer,
           parties, services, money
<1>4. ASSUME NEW p \in Provider, create_provider(p)
      PROVE  Grows
    BY <1>4 DEF TypeOK, Grows, Absent, create_provider, CreateProvider, ProvidersExist,
           parties, services, money
<1>5. ASSUME NEW p \in Provider, NEW x \in Authorizer, authorize_provider(x, p)
      PROVE  Grows
    BY <1>5 DEF TypeOK, Grows, Absent, authorize_provider, AuthorizeProvider,
           parties, services, money
<1>6. ASSUME NEW r \in Region, NEW rates \in Rates, create_region(r, rates)
      PROVE  Grows
    BY <1>6 DEF TypeOK, Grows, Absent, create_region, CreateRegion,
           parties, services, money
<1>7. ASSUME NEW r \in Region, create_authorized_usage_signer(r)
      PROVE  Grows
    BY <1>7 DEF TypeOK, Grows, Absent, create_authorized_usage_signer,
           CreateAuthorizedUsageSigner,
           parties, services, money
<1>8. ASSUME NEW s \in Stack, create_stack(s)
      PROVE  Grows
    BY <1>8 DEF TypeOK, Grows, Absent, create_stack, CreateStack,
           parties, services, money
<1>9. ASSUME NEW s \in Stack, update_stack(s)
      PROVE  Grows
    BY <1>9 DEF TypeOK, Grows, Absent, update_stack,
           parties, services, money
<1>10. ASSUME NEW s \in Stack, delete_stack(s)
      PROVE  Grows
    BY <1>10 DEF TypeOK, Grows, Absent, delete_stack,
           parties, services, money
<1>11. ASSUME NEW key \in User \X Signer \X Region, create_api_request_signer(key)
      PROVE  Grows
    BY <1>11 DEF TypeOK, Grows, Absent, create_api_request_signer, SignerBecomes,
           parties, services, money
<1>12. ASSUME NEW key \in User \X Signer \X Region, activate_api_request_signer(key)
      PROVE  Grows
    BY <1>12 DEF TypeOK, Grows, Absent, activate_api_request_signer, SignerBecomes,
           parties, services, money
<1>13. ASSUME NEW key \in User \X Signer \X Region, deactivate_api_request_signer(key)
      PROVE  Grows
    BY <1>13 DEF TypeOK, Grows, Absent, deactivate_api_request_signer, SignerBecomes,
           parties, services, money
<1>14. ASSUME NEW u \in User, NEW p \in Provider, create_provider_escrow_account(u, p)
      PROVE  Grows
    BY <1>14 DEF TypeOK, Grows, Absent, create_provider_escrow_account,
           parties, services, money
<1>15. ASSUME NEW u \in User, NEW p \in Provider, NEW amount \in 1 .. MaxTokens,
             recharge(u, p, amount)
      PROVE  Grows
    BY <1>15 DEF TypeOK, Grows, Absent, recharge,
           parties, services, money
<1>16. ASSUME NEW u \in User, NEW p \in Provider, NEW amount \in 1 .. MaxTokens,
             withdraw_escrow_balance(u, p, amount)
      PROVE  Grows
    BY <1>16 DEF TypeOK, Grows, Absent, withdraw_escrow_balance,
           parties, services, money
<1>17. ASSUME NEW s \in Stack, NEW seed \in Seed, NEW usage \in Usage,
             update_usage(s, seed, usage)
      PROVE  Grows
    BY <1>17 DEF TypeOK, Grows, Absent, update_usage,
           parties, services, money
<1>18. CASE UNCHANGED vars
    BY <1>18 DEF TypeOK, Grows, Absent, vars, parties, services, money
<1> QED  BY <1>1, <1>2, <1>3, <1>4, <1>5, <1>6, <1>7, <1>8, <1>9,
            <1>10, <1>11, <1>12, <1>13, <1>14, <1>15, <1>16, <1>17, <1>18 DEF Next

\* What is new has what it rests on.
Based ==
    /\ \A p \in Provider :
           providers'[p].authorized => providers[p].authorized \/ providers[p].exists
    /\ \A r \in Region :
           regions'[r].exists => regions[r].exists \/ providers[ProviderOf[r]].authorized
    /\ \A s \in Stack : ~Absent(s)' => ~Absent(s) \/ regions[RegionOf[s]].exists
    /\ \A r \in usage_signers' : r \in usage_signers \/ regions[r].exists
    /\ \A k \in User \X Signer \X Region :
           request_signers'[k] # "none" => request_signers[k] # "none" \/ regions[k[3]].exists
    /\ \A s \in Stack, seed \in Seed :
           usage_updates'[<<s, seed>>] # NoReport =>
               usage_updates[<<s, seed>>] # NoReport \/ UpdateUsage(s, seed)

LEMMA BasedStep == TypeOK /\ [Next]_vars => Based
<1> SUFFICES ASSUME TypeOK, [Next]_vars PROVE Based  OBVIOUS
<1>1. ASSUME NEW c \in 0 .. MICROS + 1, NEW d \in 0 .. MaxDeposit, initialize(c, d)
      PROVE  Based
    BY <1>1, Zenon DEF TypeOK, Based, Absent, initialize,
           parties, services, money
<1>2. ASSUME NEW d \in 0 .. MaxDeposit, update_provider_deposit(d)
      PROVE  Based
    BY <1>2 DEF TypeOK, Based, Absent, update_provider_deposit,
           parties, services, money
<1>3. ASSUME NEW x \in Authorizer, create_provider_authorizer(x)
      PROVE  Based
    BY <1>3, Zenon DEF TypeOK, Based, Absent, create_provider_authorizer,
           parties, services, money
<1>4. ASSUME NEW p \in Provider, create_provider(p)
      PROVE  Based
    BY <1>4, Zenon DEF TypeOK, Based, Absent, create_provider, CreateProvider,
           parties, services, money
<1>5. ASSUME NEW p \in Provider, NEW x \in Authorizer, authorize_provider(x, p)
      PROVE  Based
    BY <1>5, SMTT(30) DEF TypeOK, Based, Absent, authorize_provider, AuthorizeProvider,
           parties, services, money
<1>6. ASSUME NEW r \in Region, NEW rates \in Rates, create_region(r, rates)
      PROVE  Based
    BY <1>6, Zenon DEF TypeOK, Based, Absent, create_region, CreateRegion,
           parties, services, money
<1>7. ASSUME NEW r \in Region, create_authorized_usage_signer(r)
      PROVE  Based
    BY <1>7, Zenon DEF TypeOK, Based, Absent, create_authorized_usage_signer,
           CreateAuthorizedUsageSigner,
           parties, services, money
<1>8. ASSUME NEW s \in Stack, create_stack(s)
      PROVE  Based
    BY <1>8, Zenon DEF TypeOK, Based, Absent, create_stack, CreateStack,
           parties, services, money
<1>9. ASSUME NEW s \in Stack, update_stack(s)
      PROVE  Based
    BY <1>9 DEF TypeOK, Based, Absent, update_stack,
           parties, services, money
<1>10. ASSUME NEW s \in Stack, delete_stack(s)
      PROVE  Based
    BY <1>10 DEF TypeOK, Based, Absent, delete_stack,
           parties, services, money
<1>11. ASSUME NEW key \in User \X Signer \X Region, create_api_request_signer(key)
      PROVE  Based
    BY <1>11, Zenon DEF TypeOK, Based, Absent, create_api_request_signer, SignerBecomes,
           parties, services, money
<1>12. ASSUME NEW key \in User \X Signer \X Region, activate_api_request_signer(key)
      PROVE  Based
    BY <1>12, Zenon DEF TypeOK, Based, Absent, activate_api_request_signer, SignerBecomes,
           parties, services, money
<1>13. ASSUME NEW key \in User \X Signer \X Region, deactivate_api_request_signer(key)
      PROVE  Based
    BY <1>13, Zenon DEF TypeOK, Based, Absent, deactivate_api_request_signer, SignerBecomes,
           parties, services, money
<1>14. ASSUME NEW u \in User, NEW p \in Provider, create_provider_escrow_account(u, p)
      PROVE  Based
  <2>1. UNCHANGED <<providers, regions, usage_signers, stacks, deleted, request_signers,
                    usage_updates>>
    BY <1>14 DEF create_provider_escrow_account, parties, services
  <2> QED  BY <2>1, Zenon DEF Based, Absent
<1>15. ASSUME NEW u \in User, NEW p \in Provider, NEW amount \in 1 .. MaxTokens,
             recharge(u, p, amount)
      PROVE  Based
  <2>1. UNCHANGED <<providers, regions, usage_signers, stacks, deleted, request_signers,
                    usage_updates>>
    BY <1>15 DEF recharge, parties, services
  <2> QED  BY <2>1 DEF Based, Absent
<1>16. ASSUME NEW u \in User, NEW p \in Provider, NEW amount \in 1 .. MaxTokens,
             withdraw_escrow_balance(u, p, amount)
      PROVE  Based
  <2>1. UNCHANGED <<providers, regions, usage_signers, stacks, deleted, request_signers,
                    usage_updates>>
    BY <1>16 DEF withdraw_escrow_balance, parties, services
  <2> QED  BY <2>1 DEF Based, Absent
<1>17. ASSUME NEW s \in Stack, NEW seed \in Seed, NEW usage \in Usage,
             update_usage(s, seed, usage)
      PROVE  Based
  <2>1. UNCHANGED <<providers, regions, usage_signers, stacks, deleted, request_signers>>
    BY <1>17, Zenon DEF update_usage, parties, services
  <2>2. UpdateUsage(s, seed) /\ usage_updates' = [usage_updates EXCEPT ![<<s, seed>>] = usage]
    BY <1>17 DEF update_usage
  <2>3. \A z \in Stack, k \in Seed :
            usage_updates'[<<z, k>>] # NoReport =>
                usage_updates[<<z, k>>] # NoReport \/ UpdateUsage(z, k)
    BY <2>2 DEF TypeOK
  <2> QED  BY <2>1, <2>3 DEF Based, Absent
<1>18. CASE UNCHANGED vars
    BY <1>18, Zenon DEF TypeOK, Based, Absent, vars, parties, services, money
<1> QED  BY <1>1, <1>2, <1>3, <1>4, <1>5, <1>6, <1>7, <1>8, <1>9,
            <1>10, <1>11, <1>12, <1>13, <1>14, <1>15, <1>16, <1>17, <1>18 DEF Next

LEMMA ServedStep ==
    TypeOK /\ ServedByAuthorizedProviders /\ [Next]_vars => ServedByAuthorizedProviders'
<1> SUFFICES ASSUME TypeOK, ServedByAuthorizedProviders, [Next]_vars
             PROVE  ServedByAuthorizedProviders'
    OBVIOUS
<1>1. /\ RegionsAreAuthorized /\ ProvidersExist /\ StacksHaveRegions
      /\ SignersHaveRegions /\ ReportsAreBacked
    BY DEF ServedByAuthorizedProviders
<1>2. Grows /\ Based  BY <1>1, GrowsStep, BasedStep, SMTT(30)
<1>3. RegionsAreAuthorized'
    BY <1>1, <1>2, OwnershipAssumption, Zenon DEF RegionsAreAuthorized, Grows, Based
<1>4. ProvidersExist'  BY <1>1, <1>2, SMTT(30) DEF ProvidersExist, Grows, Based
<1>5. StacksHaveRegions'
  <2> SUFFICES ASSUME NEW s \in Stack, ~Absent(s)' PROVE regions'[RegionOf[s]].exists
      BY DEF StacksHaveRegions
  <2>1. RegionOf[s] \in Region  BY OwnershipAssumption
  <2>2. regions[RegionOf[s]].exists  BY <1>1, <1>2, Zenon DEF StacksHaveRegions, Based
  <2> QED  BY <1>2, <2>1, <2>2, Zenon DEF Grows
<1>6. SignersHaveRegions'
  <2>1. \A r \in usage_signers' : regions'[r].exists
    <3>1. usage_signers' \in SUBSET Region  BY TypeStep DEF TypeOK
    <3>2. \A r \in usage_signers' : regions[r].exists
        BY <1>1, <1>2, Zenon DEF SignersHaveRegions, Based
    <3> QED  BY <1>2, <3>1, <3>2 DEF Grows
  <2>2. \A key \in User \X Signer \X Region :
            request_signers'[key] # "none" => regions'[key[3]].exists
    <3> SUFFICES ASSUME NEW key \in User \X Signer \X Region, request_signers'[key] # "none"
                 PROVE  regions'[key[3]].exists
        OBVIOUS
    <3>1. key[3] \in Region  BY SMTT(30)
    <3>2. regions[key[3]].exists  BY <1>1, <1>2, Zenon DEF SignersHaveRegions, Based
    <3> QED  BY <1>2, <3>1, <3>2, Zenon DEF Grows
  <2> QED  BY <2>1, <2>2, SMTT(30) DEF SignersHaveRegions
<1>7. ReportsAreBacked'
  <2> SUFFICES ASSUME NEW s \in Stack, NEW seed \in Seed, usage_updates'[<<s, seed>>] # NoReport
               PROVE  /\ ~Absent(s)'
                      /\ EscrowOf(s) \in escrows'
                      /\ RegionOf[s] \in usage_signers'
      BY DEF ReportsAreBacked, EscrowOf, Escrow
  <2>1. ~Absent(s) /\ EscrowOf(s) \in escrows /\ RegionOf[s] \in usage_signers
      BY <1>1, <1>2, Zenon DEF ReportsAreBacked, Based, UpdateUsage
  <2> QED  BY <1>2, <2>1 DEF Grows
<1> QED  BY <1>3, <1>4, <1>5, <1>6, <1>7 DEF ServedByAuthorizedProviders

\* create_region and create_stack: nobody is ever served by a provider that was
\* not authorized, and every usage report on chain has a stack, an escrow and a
\* usage signer.
THEOREM ServedByAuthorized == Spec => []ServedByAuthorizedProviders
<1>1. Init => TypeOK /\ ServedByAuthorizedProviders  BY TypeInit, ServedInit
<1>2. TypeOK /\ ServedByAuthorizedProviders /\ [Next]_vars
          => TypeOK' /\ ServedByAuthorizedProviders'
    BY TypeStep, ServedStep
<1> QED  BY <1>1, <1>2, PTL DEF Spec

\* The revision of a deleted stack is gone for good.
DeletedAreGone == \A s \in deleted : stacks[s] = 0

Revisions ==
    \A s \in Stack :
        /\ s \in deleted => s \in deleted' /\ stacks'[s] = 0
        /\ stacks[s] # 0 => s \in deleted' \/ stacks'[s] - stacks[s] \in {0, 1}

LEMMA RevisionsStep == TypeOK /\ DeletedAreGone /\ [Next]_vars => Revisions /\ DeletedAreGone'
<1> SUFFICES ASSUME TypeOK, DeletedAreGone, [Next]_vars PROVE Revisions /\ DeletedAreGone'
    OBVIOUS
<1>1. ASSUME NEW c \in 0 .. MICROS + 1, NEW d \in 0 .. MaxDeposit, initialize(c, d)
      PROVE  Revisions /\ DeletedAreGone'
    BY <1>1 DEF TypeOK, Revisions, DeletedAreGone, Absent, initialize,
           parties, services, money
<1>2. ASSUME NEW d \in 0 .. MaxDeposit, update_provider_deposit(d)
      PROVE  Revisions /\ DeletedAreGone'
    BY <1>2 DEF TypeOK, Revisions, DeletedAreGone, Absent, update_provider_deposit,
           parties, services, money
<1>3. ASSUME NEW x \in Authorizer, create_provider_authorizer(x)
      PROVE  Revisions /\ DeletedAreGone'
    BY <1>3 DEF TypeOK, Revisions, DeletedAreGone, Absent, create_provider_authorizer,
           parties, services, money
<1>4. ASSUME NEW p \in Provider, create_provider(p)
      PROVE  Revisions /\ DeletedAreGone'
    BY <1>4 DEF TypeOK, Revisions, DeletedAreGone, Absent, create_provider, CreateProvider,
           parties, services, money
<1>5. ASSUME NEW p \in Provider, NEW x \in Authorizer, authorize_provider(x, p)
      PROVE  Revisions /\ DeletedAreGone'
    BY <1>5, SMTT(30) DEF TypeOK, Revisions, DeletedAreGone, Absent, authorize_provider, AuthorizeProvider,
           parties, services, money
<1>6. ASSUME NEW r \in Region, NEW rates \in Rates, create_region(r, rates)
      PROVE  Revisions /\ DeletedAreGone'
  <2>1. UNCHANGED <<stacks, deleted>>  BY <1>6, Zenon DEF create_region
  <2> QED  BY <2>1 DEF TypeOK, Revisions, DeletedAreGone
<1>7. ASSUME NEW r \in Region, create_authorized_usage_signer(r)
      PROVE  Revisions /\ DeletedAreGone'
    BY <1>7 DEF TypeOK, Revisions, DeletedAreGone, Absent,
           create_authorized_usage_signer, CreateAuthorizedUsageSigner,
           parties, services, money
<1>8. ASSUME NEW s \in Stack, create_stack(s)
      PROVE  Revisions /\ DeletedAreGone'
    BY <1>8 DEF TypeOK, Revisions, DeletedAreGone, Absent, create_stack, CreateStack,
           parties, services, money
<1>9. ASSUME NEW s \in Stack, update_stack(s)
      PROVE  Revisions /\ DeletedAreGone'
    BY <1>9 DEF TypeOK, Revisions, DeletedAreGone, Absent, update_stack,
           parties, services, money
<1>10. ASSUME NEW s \in Stack, delete_stack(s)
      PROVE  Revisions /\ DeletedAreGone'
    BY <1>10 DEF TypeOK, Revisions, DeletedAreGone, Absent, delete_stack,
           parties, services, money
<1>11. ASSUME NEW key \in User \X Signer \X Region, create_api_request_signer(key)
      PROVE  Revisions /\ DeletedAreGone'
    BY <1>11 DEF TypeOK, Revisions, DeletedAreGone, Absent, create_api_request_signer,
           SignerBecomes,
           parties, services, money
<1>12. ASSUME NEW key \in User \X Signer \X Region, activate_api_request_signer(key)
      PROVE  Revisions /\ DeletedAreGone'
    BY <1>12 DEF TypeOK, Revisions, DeletedAreGone, Absent, activate_api_request_signer,
           SignerBecomes,
           parties, services, money
<1>13. ASSUME NEW key \in User \X Signer \X Region, deactivate_api_request_signer(key)
      PROVE  Revisions /\ DeletedAreGone'
    BY <1>13 DEF TypeOK, Revisions, DeletedAreGone, Absent,
           deactivate_api_request_signer, SignerBecomes,
           parties, services, money
<1>14. ASSUME NEW u \in User, NEW p \in Provider, create_provider_escrow_account(u, p)
      PROVE  Revisions /\ DeletedAreGone'
    BY <1>14 DEF TypeOK, Revisions, DeletedAreGone, Absent, create_provider_escrow_account,
           parties, services, money
<1>15. ASSUME NEW u \in User, NEW p \in Provider, NEW amount \in 1 .. MaxTokens,
             recharge(u, p, amount)
      PROVE  Revisions /\ DeletedAreGone'
    BY <1>15 DEF TypeOK, Revisions, DeletedAreGone, Absent, recharge,
           parties, services, money
<1>16. ASSUME NEW u \in User, NEW p \in Provider, NEW amount \in 1 .. MaxTokens,
             withdraw_escrow_balance(u, p, amount)
      PROVE  Revisions /\ DeletedAreGone'
    BY <1>16, SMTT(30) DEF TypeOK, Revisions, DeletedAreGone, Absent, withdraw_escrow_balance,
           parties, services, money
<1>17. ASSUME NEW s \in Stack, NEW seed \in Seed, NEW usage \in Usage,
             update_usage(s, seed, usage)
      PROVE  Revisions /\ DeletedAreGone'
  <2>1. UNCHANGED <<stacks, deleted>>  BY <1>17, Zenon DEF update_usage, services
  <2> QED  BY <2>1 DEF TypeOK, Revisions, DeletedAreGone
<1>18. CASE UNCHANGED vars
    BY <1>18 DEF TypeOK, Revisions, DeletedAreGone, Absent, vars, parties, services, money
<1> QED  BY Zenon, <1>1, <1>2, <1>3, <1>4, <1>5, <1>6, <1>7, <1>8, <1>9,
            <1>10, <1>11, <1>12, <1>13, <1>14, <1>15, <1>16, <1>17, <1>18 DEF Next

\* update_stack and delete_stack: a deleted stack never comes back, and no
\* revision is skipped or used twice.
THEOREM RevisionsOnlyGrow == Spec => StackRevisionsOnlyGrow
<1>1. Init => TypeOK /\ DeletedAreGone  BY TypeInit DEF Init, DeletedAreGone
<1>2. TypeOK /\ DeletedAreGone /\ [Next]_vars => TypeOK' /\ DeletedAreGone'
    BY TypeStep, RevisionsStep
<1>3. TypeOK /\ DeletedAreGone /\ [Next]_vars => [Revisions]_vars  BY RevisionsStep
<1>4. Revisions <=>
          \A s \in Stack :
              /\ s \in deleted => s \in deleted' /\ stacks'[s] = 0
              /\ stacks[s] # 0 => s \in deleted' \/ stacks'[s] - stacks[s] \in {0, 1}
    BY DEF Revisions
<1> QED  BY <1>1, <1>2, <1>3, <1>4, PTL DEF Spec, StackRevisionsOnlyGrow

(***************************************************************************)
(* Sums over finite sets.  SumFunction is a recursive function on the      *)
(* subsets of a set, which takes out an element that CHOOSE picks.  Its    *)
(* laws are shown by a subset that is minimal among the counterexamples.   *)
(***************************************************************************)
Some(T) == CHOOSE x \in T : TRUE

\* g holds the sums of f over the subsets of S, as SumFunctionOnSet computes them:
\* an element that CHOOSE picks, and the rest.
IsSum(g, f, S) ==
    g = [T \in SUBSET S |-> IF T = {} THEN 0 ELSE f[Some(T)] + g[T \ {Some(T)}]]

LEMMA SomeElement ==
    ASSUME NEW T, T # {}
    PROVE  Some(T) \in T
BY DEF Some

LEMMA SumUnfold ==
    ASSUME NEW f, NEW S
    PROVE  SumFunctionOnSet(f, S) = (CHOOSE g : IsSum(g, f, S))[S]
BY DEF SumFunctionOnSet, FoldFunctionOnSet, MapThenFoldSet, IsSum, Some

\* A set of subsets of a finite set has a minimal element: the induction that
\* the facts about sums rest on.
LEMMA MinimalSubset ==
    ASSUME NEW S, IsFiniteSet(S), NEW Bad \in SUBSET (SUBSET S), Bad # {}
    PROVE  \E T \in Bad : \A U \in SUBSET T : U # T => U \notin Bad
<1>1. IsWellFoundedOn(StrictSubsetOrdering(S), SUBSET S)
  BY FS_StrictSubsetOrderingWellFounded, FS_FiniteSubsetsOfFinite, Zenon
<1>2. PICK T \in Bad : \A U \in Bad : <<U, T>> \notin StrictSubsetOrdering(S)
  BY <1>1, WFMin
<1> QED
  BY <1>2, Zenon DEF StrictSubsetOrdering

LEMMA SumEquation ==
    ASSUME NEW g, NEW f, NEW S, IsSum(g, f, S), NEW T \in SUBSET S
    PROVE  /\ T = {} => g[T] = 0
           /\ T # {} => g[T] = f[Some(T)] + g[T \ {Some(T)}]
<1>1. g[T] = IF T = {} THEN 0 ELSE f[Some(T)] + g[T \ {Some(T)}]
  BY Zenon DEF IsSum
<1> QED
  BY <1>1

\* Two sums agree on a set on which the functions do.
LEMMA SumsAgree ==
    ASSUME NEW g, NEW f, NEW S, IsSum(g, f, S), NEW h, NEW e, NEW R, IsSum(h, e, R),
           NEW T, IsFiniteSet(T), T \subseteq S, T \subseteq R, \A x \in T : f[x] = e[x]
    PROVE  g[T] = h[T]
<1> DEFINE Bad == {U \in SUBSET T : g[U] # h[U]}
<1> SUFFICES ASSUME Bad # {} PROVE FALSE
  OBVIOUS
<1>0. Bad \in SUBSET (SUBSET T)
  OBVIOUS
<1> HIDE DEF Bad
<1>1. PICK U \in Bad : \A V \in SUBSET U : V # U => V \notin Bad
  BY <1>0, MinimalSubset
<1> USE DEF Bad
<1>2. U \in SUBSET S /\ U \in SUBSET R /\ U \in SUBSET T /\ g[U] # h[U]
  BY <1>1, Zenon
<1>3. U # {}
  BY <1>2, SumEquation, Zenon
<1>4. Some(U) \in U
  BY <1>3, SomeElement, Zenon
<1> DEFINE V == U \ {Some(U)}
<1>5. V \in SUBSET U /\ V # U
  BY <1>4, Zenon
<1>6. g[V] = h[V]
  BY <1>1, <1>2, <1>5, Zenon
<1>7. g[U] = f[Some(U)] + g[V] /\ h[U] = e[Some(U)] + h[V]
  BY <1>2, <1>3, SumEquation
<1> QED
  BY <1>2, <1>4, <1>6, <1>7, Zenon

\* The recursion is well defined on a finite set.
LEMMA SumExists ==
    ASSUME NEW f, NEW S, IsFiniteSet(S)
    PROVE  IsSum(CHOOSE g : IsSum(g, f, S), f, S)
<1> DEFINE sum(U) == CHOOSE g : IsSum(g, f, U)
           Bad == {U \in SUBSET S : ~IsSum(sum(U), f, U)}
<1> SUFFICES ASSUME Bad # {} PROVE FALSE
  OBVIOUS
<1>0. Bad \in SUBSET (SUBSET S)
  OBVIOUS
<1> HIDE DEF Bad
<1>1. PICK T \in Bad : \A U \in SUBSET T : U # T => U \notin Bad
  BY <1>0, MinimalSubset
<1>2. \A U \in SUBSET T : U # T => IsSum(sum(U), f, U)
  BY <1>0, <1>1 DEF Bad
<1>3. \A U \in SUBSET T : IsFiniteSet(U)
  BY <1>0, <1>1, FS_Subset
<1> DEFINE g == [U \in SUBSET T |->
                    IF U = {} THEN 0
                    ELSE f[Some(U)] + sum(U \ {Some(U)})[U \ {Some(U)}]]
<1>4. ASSUME NEW U \in SUBSET T, U # T
      PROVE  g[U] = sum(U)[U]
  <2>1. IsSum(sum(U), f, U) /\ U \in SUBSET U
    BY <1>2, <1>4
  <2> HIDE DEF sum
  <2>2. CASE U = {}
    BY <2>1, <2>2, SumEquation, Zenon
  <2>3. CASE U # {}
    <3> DEFINE V == U \ {Some(U)}
    <3>1. V \in SUBSET T /\ V # T /\ V \subseteq U /\ V \subseteq V
      BY <1>4
    <3>2. IsSum(sum(V), f, V) /\ IsFiniteSet(V)
      BY <1>2, <1>3, <3>1
    <3>3. sum(U)[V] = sum(V)[V]
      BY <2>1, <3>1, <3>2, SumsAgree
    <3>4. sum(U)[U] = f[Some(U)] + sum(U)[V]
      BY <2>1, <2>3, SumEquation
    <3>5. g[U] = f[Some(U)] + sum(V)[V]
      BY <2>3
    <3> QED
      BY <3>3, <3>4, <3>5, Zenon
  <2> QED
    BY <2>2, <2>3, Zenon
<1>5. ASSUME NEW U \in SUBSET T, U # {}
      PROVE  sum(U \ {Some(U)})[U \ {Some(U)}] = g[U \ {Some(U)}]
  <2>1. U \ {Some(U)} \in SUBSET T /\ U \ {Some(U)} # T
    BY <1>5, SomeElement
  <2> HIDE DEF g, sum
  <2> QED
    BY <1>4, <2>1
<1>6. \E h : IsSum(h, f, T)
  <2> DEFINE A(U) == IF U = {} THEN 0 ELSE f[Some(U)] + sum(U \ {Some(U)})[U \ {Some(U)}]
             B(U) == IF U = {} THEN 0 ELSE f[Some(U)] + g[U \ {Some(U)}]
  <2>1. \A U \in SUBSET T : A(U) = B(U)
    <3> HIDE DEF g, sum
    <3> QED
      BY <1>5
  <2>2. g = [U \in SUBSET T |-> B(U)]
    <3>1. g = [U \in SUBSET T |-> A(U)]
      OBVIOUS
    <3> HIDE DEF g, A, B
    <3> QED
      BY <2>1, <3>1
  <2> HIDE DEF g
  <2> QED
    BY <2>2 DEF IsSum
<1>7. IsSum(sum(T), f, T)
  BY <1>6
<1> QED
  BY <1>1, <1>7 DEF Bad

LEMMA SumType ==
    ASSUME NEW g, NEW S, IsFiniteSet(S), NEW f \in [S -> Int], IsSum(g, f, S),
           NEW T \in SUBSET S
    PROVE  g[T] \in Int
<1> DEFINE Bad == {U \in SUBSET S : g[U] \notin Int}
<1> SUFFICES ASSUME Bad # {} PROVE FALSE
  OBVIOUS
<1>0. Bad \in SUBSET (SUBSET S)
  OBVIOUS
<1> HIDE DEF Bad
<1>1. PICK U \in Bad : \A V \in SUBSET U : V # U => V \notin Bad
  BY <1>0, MinimalSubset
<1>2. U \in SUBSET S
  BY <1>0, <1>1
<1>3. /\ U = {} => g[U] = 0
      /\ U # {} => g[U] = f[Some(U)] + g[U \ {Some(U)}]
  BY <1>2, SumEquation
<1>4. g[U] \notin Int
  BY <1>1, Zenon DEF Bad
<1>5. U # {}
  BY <1>3, <1>4
<1>6. Some(U) \in U
  BY <1>5, SomeElement
<1>7. g[U \ {Some(U)}] \in Int
  BY <1>1, <1>2, <1>6 DEF Bad
<1>8. f[Some(U)] \in Int
  BY <1>2, <1>6
<1> QED
  BY <1>3, <1>4, <1>5, <1>7, <1>8

\* The order in which CHOOSE picks the elements does not matter.
LEMMA SumRemove ==
    ASSUME NEW g, NEW S, IsFiniteSet(S), NEW f \in [S -> Int], IsSum(g, f, S), NEW x \in S
    PROVE  g[S] = f[x] + g[S \ {x}]
<1> DEFINE Bad == {U \in SUBSET S : \E y \in U : g[U] # f[y] + g[U \ {y}]}
<1> SUFFICES ASSUME Bad # {} PROVE FALSE
  BY Zenon DEF Bad
<1>0. Bad \in SUBSET (SUBSET S)
  BY Zenon
<1> HIDE DEF Bad
<1>1. PICK U \in Bad : \A V \in SUBSET U : V # U => V \notin Bad
  BY <1>0, MinimalSubset
<1>2. PICK y \in U : g[U] # f[y] + g[U \ {y}]
  BY <1>1, Zenon DEF Bad
<1>3. U \in SUBSET S
  BY <1>0, <1>1
<1> DEFINE c == Some(U)
<1>4. c \in U /\ g[U] = f[c] + g[U \ {c}]
  BY <1>2, <1>3, SumEquation, SomeElement
<1> HIDE DEF c
<1>5. c # y
  BY <1>2, <1>4, Zenon
<1>6. g[U \ {c}] = f[y] + g[(U \ {c}) \ {y}]
  <2>1. U \ {c} \in SUBSET U /\ U \ {c} # U /\ y \in U \ {c} /\ U \ {c} \in SUBSET S
    BY <1>2, <1>3, <1>4, <1>5, Zenon
  <2> QED
    BY <1>1, <2>1, Zenon DEF Bad
<1>7. g[U \ {y}] = f[c] + g[(U \ {y}) \ {c}]
  <2>1. U \ {y} \in SUBSET U /\ U \ {y} # U /\ c \in U \ {y} /\ U \ {y} \in SUBSET S
    BY <1>2, <1>3, <1>4, <1>5, Zenon
  <2> QED
    BY <1>1, <2>1, Zenon DEF Bad
<1>8. (U \ {c}) \ {y} = (U \ {y}) \ {c} /\ (U \ {c}) \ {y} \in SUBSET S
  BY <1>3
<1>9. g[(U \ {c}) \ {y}] \in Int /\ f[c] \in Int /\ f[y] \in Int
  BY <1>2, <1>3, <1>4, <1>8, SumType, Zenon
<1>10. g[U] = f[c] + (f[y] + g[(U \ {c}) \ {y}])
  BY <1>4, <1>6, Zenon
<1>11. g[U \ {y}] = f[c] + g[(U \ {c}) \ {y}]
  BY <1>7, <1>8, Zenon
<1> DEFINE a == f[c]
           b == f[y]
           d == g[(U \ {c}) \ {y}]
           e == g[U \ {y}]
<1>12. a \in Int /\ b \in Int /\ d \in Int /\ e = a + d
  BY <1>9, <1>11, Zenon
<1>13. g[U] = a + (b + d) /\ g[U] # b + e
  BY <1>2, <1>10, Zenon
<1> HIDE DEF a, b, d, e
<1>14. a + (b + d) = b + e
  BY <1>12
<1> QED
  BY <1>13, <1>14

\* The sum of no values.
LEMMA SumOfNone ==
    ASSUME NEW f, DOMAIN f = {}
    PROVE  SumFunction(f) = 0
<1>1. IsFiniteSet({})
  BY FS_EmptySet
<1> DEFINE g == CHOOSE g : IsSum(g, f, {})
<1>2. IsSum(g, f, {})
  BY <1>1, SumExists
<1>3. SumFunction(f) = g[{}]
  BY SumUnfold DEF SumFunction
<1> HIDE DEF g
<1> QED
  BY <1>2, <1>3, SumEquation, Zenon

\* One more value.
LEMMA SumOfOneMore ==
    ASSUME NEW S, IsFiniteSet(S), NEW x, x \notin S, NEW f \in [S -> Int],
           NEW e \in [S \cup {x} -> Int], \A y \in S : e[y] = f[y]
    PROVE  SumFunction(e) = e[x] + SumFunction(f) /\ SumFunction(f) \in Int
<1> DEFINE R == S \cup {x}
           g == CHOOSE g : IsSum(g, f, S)
           h == CHOOSE h : IsSum(h, e, R)
<1>0. IsFiniteSet(R) /\ x \in R /\ R \ {x} = S /\ S \subseteq R
  BY FS_AddElement
<1> HIDE DEF R
<1>1. IsSum(g, f, S) /\ IsSum(h, e, R)
  BY <1>0, SumExists
<1>2. SumFunction(f) = g[S] /\ SumFunction(e) = h[R]
  BY SumUnfold, Zenon DEF SumFunction, R
<1> HIDE DEF g, h
<1>3. h[S] = g[S]
  BY <1>0, <1>1, SumsAgree
<1>4. e \in [R -> Int]
  BY DEF R
<1>5. h[R] = e[x] + h[R \ {x}]
  BY <1>0, <1>1, <1>4, SumRemove
<1>6. g[S] \in Int
  BY <1>1, SumType, Zenon
<1> QED
  BY <1>0, <1>2, <1>3, <1>5, <1>6, Zenon

LEMMA SumIsANumber ==
    ASSUME NEW S, IsFiniteSet(S), NEW f \in [S -> Int]
    PROVE  SumFunction(f) \in Int
<1> DEFINE g == CHOOSE g : IsSum(g, f, S)
<1>1. IsSum(g, f, S)
  BY SumExists
<1>2. SumFunction(f) = g[S]
  BY SumUnfold DEF SumFunction
<1> HIDE DEF g
<1> QED
  BY <1>1, <1>2, SumType

(***************************************************************************)
(* The books of the escrows.                                               *)
(***************************************************************************)

LEMMA EscrowsApart ==
    ASSUME NEW a \in EscrowAccount
    PROVE  a \in TokenAccount /\ a # Deposit /\ a # Commission /\ \A x : a # Wallet(x)
<1>1. a[1] = "escrow"
  BY DEF EscrowAccount, Escrow
<1>2. Deposit[1] = "deposit" /\ Commission[1] = "commission" /\ \A x : Wallet(x)[1] = "wallet"
  BY DEF Deposit, Commission, Wallet
<1> QED
  BY <1>1, <1>2, AccountsAreThere

\* What a transfer does to an account.
LEMMA TransferAmounts ==
    ASSUME NEW b \in [TokenAccount -> Nat], NEW from, NEW to, from # to, NEW amount \in Nat,
           NEW a \in TokenAccount
    PROVE  /\ a = from => Transfer(b, from, to, amount)[a] = b[a] - amount
           /\ a = to => Transfer(b, from, to, amount)[a] = b[a] + amount
           /\ a # from /\ a # to => Transfer(b, from, to, amount)[a] = b[a]
BY DEF Transfer

\* update_usage takes the price from the escrow of the stack, and nothing from
\* any other.
LEMMA ChargeAmounts ==
    ASSUME TypeOK, NEW s \in Stack, NEW price \in 0 .. U64 - 1, Charge(s, price),
           NEW a \in EscrowAccount
    PROVE  balance'[a] = IF a = EscrowOf(s) THEN balance[a] - price ELSE balance[a]
<1> DEFINE e == EscrowOf(s)
           rate == state.commission_rate_micros
           wallet == Wallet(ProviderOf[RegionOf[s]])
           prov == provider_tokens(price, rate)
           comm == commission_tokens(price, rate)
           paid == Transfer(balance, e, wallet, prov)
<1>1. rate \in 0 .. MICROS /\ balance \in [TokenAccount -> Nat]
  BY DEF TypeOK
<1>2. prov \in Nat /\ comm \in Nat /\ prov + comm = price
  BY <1>1, PriceIsShared
<1>3. e \in EscrowAccount
  BY EscrowOfType
<1>4. /\ e \in TokenAccount /\ e # wallet /\ e # Commission
      /\ a \in TokenAccount /\ a # wallet /\ a # Commission
  BY <1>3, EscrowsApart, Zenon
<1>5. wallet \in TokenAccount
  BY AccountsAreThere, OwnershipAssumption
<1>6. balance[e] >= prov /\ balance' = Transfer(paid, e, Commission, comm)
  BY Zenon DEF Charge
<1> HIDE DEF e, rate, wallet, prov, comm
<1>7. paid \in [TokenAccount -> Nat]
  BY <1>1, <1>2, <1>4, <1>5, <1>6, TransferType
<1>8. /\ a = e => paid[a] = balance[a] - prov
      /\ a # e => paid[a] = balance[a]
  BY <1>1, <1>2, <1>4, TransferAmounts
<1> HIDE DEF paid
<1>9. /\ a = e => balance'[a] = paid[a] - comm
      /\ a # e => balance'[a] = paid[a]
  BY <1>2, <1>4, <1>6, <1>7, TransferAmounts
<1>10. price \in Nat /\ balance[a] \in Nat
  BY <1>1, <1>2, <1>4
<1>11. CASE a = e
  <2>1. balance'[a] = (balance[a] - prov) - comm
    BY <1>8, <1>9, <1>11, Zenon
  <2>2. balance'[a] = balance[a] - price
    BY <1>2, <1>10, <2>1
  <2> QED
    BY <1>11, <2>2 DEF e
<1>12. CASE a # e
  BY <1>8, <1>9, <1>12, Zenon DEF e
<1> QED
  BY <1>11, <1>12, Zenon

----------------------------------------------------------------------------
Reported == {k \in Stack \X Seed : usage_updates[k] # NoReport}

\* The inductive invariant: in any state there are finitely many reports.
BooksInv ==
    /\ TypeOK
    /\ ServedByAuthorizedProviders
    /\ IsFiniteSet(Reported)
    /\ EscrowBooksBalance

LEMMA BooksInit == Init => BooksInv
<1> SUFFICES ASSUME Init PROVE BooksInv
  OBVIOUS
<1>1. Reported = {}
  BY DEF Init, Reported
<1>2. IsFiniteSet(Reported)
  BY <1>1, FS_EmptySet
<1>3. ASSUME NEW a \in EscrowAccount
      PROVE  balance[a] = paid_in[a] - SumFunction(Charges(a))
  <2>1. Reports(a) = {}
    BY <1>1, Zenon DEF Reports, Reported
  <2>2. SumFunction(Charges(a)) = 0
    BY <2>1, SumOfNone DEF Charges
  <2>3. a \in TokenAccount /\ a \notin WalletAccount
    BY EscrowsApart DEF WalletAccount
  <2>4. balance[a] = 0 /\ paid_in[a] = 0
    BY <2>3 DEF Init
  <2> QED
    BY <2>2, <2>4
<1> QED
  BY <1>2, <1>3, TypeInit, ServedInit DEF BooksInv, EscrowBooksBalance

LEMMA ReportsFinite ==
    ASSUME IsFiniteSet(Reported), NEW a
    PROVE  IsFiniteSet(Reports(a))
<1>1. Reports(a) \subseteq Reported
  BY Zenon DEF Reports, Reported
<1> QED
  BY <1>1, FS_Subset

LEMMA PriceType ==
    ASSUME TypeOK, NEW k \in Stack \X Seed, usage_updates[k] # NoReport
    PROVE  Price(k) \in 0 .. U64 - 1 /\ Price(k) \in Int
<1>1. k[1] \in Stack /\ RegionOf[k[1]] \in Region
  BY OwnershipAssumption, Zenon
<1>2. regions[RegionOf[k[1]]].rates \in [Category -> Nat]
  <2>1. regions[RegionOf[k[1]]] \in [exists : BOOLEAN, rates : Rates \cup {NoUsage}]
    BY <1>1, Zenon DEF TypeOK
  <2>2. Rates \cup {NoUsage} \subseteq [Category -> Nat]
    BY RatesAssumption DEF NoUsage
  <2> QED
    BY <2>1, <2>2, Zenon
<1>3. usage_updates[k] \in [Category -> Nat]
  BY RatesAssumption, Zenon DEF TypeOK
<1>4. Price(k) \in 0 .. U64 - 1
  BY <1>2, <1>3, PriceIsAWord, Zenon DEF Price
<1> QED
  BY <1>4, UnitAssumption

\* A region that has a report keeps its rates.
LEMMA ChargesStay ==
    ASSUME ServedByAuthorizedProviders, usage_updates' = usage_updates,
           \A r \in Region : regions[r].exists => regions'[r] = regions[r],
           NEW a
    PROVE  Charges(a)' = Charges(a)
<1>1. Reports(a)' = Reports(a)
  BY DEF Reports, EscrowOf, Escrow
<1>2. ASSUME NEW k \in Reports(a)
      PROVE  Price(k)' = Price(k)
  <2>1. k \in Stack \X Seed /\ usage_updates[k] # NoReport
    BY <1>2 DEF Reports
  <2>2. PICK s \in Stack, seed \in Seed : k = <<s, seed>>
    BY <2>1
  <2>3. RegionOf[s] \in usage_signers /\ RegionOf[s] \in Region
    BY <2>1, <2>2, OwnershipAssumption, Zenon DEF ServedByAuthorizedProviders, ReportsAreBacked
  <2>4. regions[RegionOf[s]].exists
    BY <2>3, Zenon DEF ServedByAuthorizedProviders, SignersHaveRegions
  <2>5. regions'[RegionOf[k[1]]] = regions[RegionOf[k[1]]]
    BY <2>2, <2>3, <2>4, Zenon
  <2> QED
    BY <2>5, Zenon DEF Price
<1> QED
  BY <1>1, <1>2, Zenon DEF Charges

\* A step that makes no report and moves nothing to or from an escrow.
LEMMA BooksStay ==
    ASSUME BooksInv, usage_updates' = usage_updates, paid_in' = paid_in,
           \A r \in Region : regions[r].exists => regions'[r] = regions[r],
           \A a \in EscrowAccount : balance'[a] = balance[a]
    PROVE  IsFiniteSet(Reported)' /\ EscrowBooksBalance'
<1>1. Reported' = Reported /\ IsFiniteSet(Reported) /\ EscrowBooksBalance
      /\ ServedByAuthorizedProviders
  BY Zenon DEF Reported, BooksInv
<1>2. ASSUME NEW a \in EscrowAccount
      PROVE  balance'[a] = paid_in'[a] - SumFunction(Charges(a)')
  <2>1. Charges(a)' = Charges(a)
    BY <1>1, ChargesStay, Zenon
  <2>2. balance[a] = paid_in[a] - SumFunction(Charges(a))
    BY <1>1, Zenon DEF EscrowBooksBalance
  <2> QED
    BY <2>1, <2>2, Zenon
<1> QED
  BY <1>1, <1>2, Zenon DEF EscrowBooksBalance

\* The sum of a developer's charges is a number.
LEMMA ChargesTotal ==
    ASSUME TypeOK, IsFiniteSet(Reported), NEW a
    PROVE  Charges(a) \in [Reports(a) -> Int] /\ SumFunction(Charges(a)) \in Int
<1>1. IsFiniteSet(Reports(a))
  BY ReportsFinite
<1>2. \A k \in Reports(a) : Price(k) \in Int
  BY PriceType, Zenon DEF Reports
<1>3. Charges(a) \in [Reports(a) -> Int]
  BY <1>2 DEF Charges
<1> QED
  BY <1>1, <1>3, SumIsANumber

\* recharge and withdraw_escrow_balance: the history follows the escrow.
LEMMA BooksFollow ==
    ASSUME BooksInv, UNCHANGED <<usage_updates, regions>>,
           NEW e \in EscrowAccount, NEW amount \in Int,
           paid_in' = [paid_in EXCEPT ![e] = paid_in[e] + amount],
           \A a \in EscrowAccount :
               balance'[a] = IF a = e THEN balance[a] + amount ELSE balance[a]
    PROVE  IsFiniteSet(Reported)' /\ EscrowBooksBalance'
<1>1. Reported' = Reported /\ IsFiniteSet(Reported) /\ EscrowBooksBalance /\ TypeOK
      /\ ServedByAuthorizedProviders
  BY Zenon DEF Reported, BooksInv
<1>2. ASSUME NEW a \in EscrowAccount
      PROVE  balance'[a] = paid_in'[a] - SumFunction(Charges(a)')
  <2>1. Charges(a)' = Charges(a)
    BY <1>1, ChargesStay, Zenon
  <2>2. balance[a] = paid_in[a] - SumFunction(Charges(a))
    BY <1>1, Zenon DEF EscrowBooksBalance
  <2> DEFINE sum == SumFunction(Charges(a))
             b == balance[a]
             p == paid_in[a]
  <2>3. sum \in Int /\ p \in Int /\ b = p - sum
    BY <1>1, <2>2, ChargesTotal, Zenon DEF TypeOK
  <2>4. /\ paid_in'[a] = IF a = e THEN p + amount ELSE p
        /\ balance'[a] = IF a = e THEN b + amount ELSE b
    BY <1>1, Zenon DEF TypeOK
  <2> HIDE DEF sum, b, p
  <2>5. balance'[a] = paid_in'[a] - sum
    BY <2>3, <2>4
  <2> QED
    BY <2>1, <2>5, Zenon DEF sum
<1> QED
  BY <1>1, <1>2, Zenon DEF EscrowBooksBalance

LEMMA RechargeBooks ==
    ASSUME BooksInv, NEW u \in User, NEW p \in Provider, NEW amount \in 1 .. MaxTokens,
           recharge(u, p, amount)
    PROVE  IsFiniteSet(Reported)' /\ EscrowBooksBalance'
<1> DEFINE e == Escrow(u, p)
           w == Wallet(u)
<1>1. /\ amount \in Nat /\ e \in EscrowAccount
      /\ balance \in [TokenAccount -> Nat]
      /\ UNCHANGED <<usage_updates, regions>>
      /\ paid_in' = [paid_in EXCEPT ![e] = paid_in[e] + amount]
      /\ balance' = Transfer(balance, w, e, amount)
  BY BoundsAssumption, AccountsAreThere DEF recharge, services, BooksInv, TypeOK
<1>2. e # w /\ \A a \in EscrowAccount : a \in TokenAccount /\ a # w
  BY <1>1, EscrowsApart
<1> HIDE DEF e, w
<1>3. \A a \in EscrowAccount :
          balance'[a] = IF a = e THEN balance[a] + amount ELSE balance[a]
  BY <1>1, <1>2, TransferAmounts
<1>4. amount \in Int
  BY <1>1
<1> QED
  BY <1>1, <1>3, <1>4, BooksFollow, Zenon

LEMMA WithdrawBooks ==
    ASSUME BooksInv, NEW u \in User, NEW p \in Provider, NEW amount \in 1 .. MaxTokens,
           withdraw_escrow_balance(u, p, amount)
    PROVE  IsFiniteSet(Reported)' /\ EscrowBooksBalance'
<1> DEFINE e == Escrow(u, p)
           w == Wallet(u)
<1>1. /\ amount \in Nat /\ e \in EscrowAccount
      /\ balance \in [TokenAccount -> Nat] /\ paid_in \in [EscrowAccount -> Int]
      /\ UNCHANGED <<usage_updates, regions>>
      /\ paid_in' = [paid_in EXCEPT ![e] = paid_in[e] - amount]
      /\ balance' = Transfer(balance, e, w, amount)
  BY BoundsAssumption, AccountsAreThere
     DEF withdraw_escrow_balance, services, BooksInv, TypeOK
<1>2. e # w /\ \A a \in EscrowAccount : a \in TokenAccount /\ a # w
  BY <1>1, EscrowsApart, Zenon
<1> HIDE DEF e, w
<1>3. \A a \in EscrowAccount :
          balance'[a] = IF a = e THEN balance[a] - amount ELSE balance[a]
  BY <1>1, <1>2, TransferAmounts
<1>4. \A a \in EscrowAccount :
          balance'[a] = IF a = e THEN balance[a] + (0 - amount) ELSE balance[a]
  BY <1>1, <1>2, <1>3
<1>5. paid_in[e] - amount = paid_in[e] + (0 - amount) /\ 0 - amount \in Int
  BY <1>1
<1>6. paid_in' = [paid_in EXCEPT ![e] = paid_in[e] + (0 - amount)]
  BY <1>1, <1>5, Zenon
<1> DEFINE added == 0 - amount
<1>7. /\ added \in Int /\ paid_in' = [paid_in EXCEPT ![e] = paid_in[e] + added]
      /\ \A a \in EscrowAccount :
             balance'[a] = IF a = e THEN balance[a] + added ELSE balance[a]
  BY <1>4, <1>5, <1>6, Zenon
<1> HIDE DEF added
<1> QED
  BY <1>1, <1>7, BooksFollow, Zenon

\* update_usage: one more report, which costs what its escrow is charged.
LEMMA UsageBooks ==
    ASSUME BooksInv, NEW s \in Stack, NEW seed \in Seed, NEW usage \in Usage,
           update_usage(s, seed, usage)
    PROVE  IsFiniteSet(Reported)' /\ EscrowBooksBalance'
<1> DEFINE k0 == <<s, seed>>
           price == calc_usage(regions[RegionOf[s]].rates, usage)
<1>1. /\ TypeOK /\ ServedByAuthorizedProviders /\ IsFiniteSet(Reported) /\ EscrowBooksBalance
      /\ usage_updates \in [Stack \X Seed -> Usage \cup {NoReport}]
      /\ usage \in Usage /\ k0 \in Stack \X Seed
  BY Zenon DEF BooksInv, TypeOK
<1>2. /\ usage_updates[k0] = NoReport /\ Charge(s, price)
      /\ usage_updates' = [usage_updates EXCEPT ![k0] = usage]
      /\ UNCHANGED <<paid_in, regions>>
  BY Zenon DEF update_usage, UpdateUsage, services
<1>3. usage # NoReport
  BY RatesAssumption
<1>4. /\ \A k \in Stack \X Seed : k # k0 => usage_updates'[k] = usage_updates[k]
      /\ usage_updates'[k0] = usage
  BY <1>1, <1>2, Zenon
<1>5. Price(k0)' = price
  BY <1>2, <1>4, Zenon DEF Price
<1>6. price \in 0 .. U64 - 1
  <2>1. regions[RegionOf[s]].rates \in [Category -> Nat] /\ usage \in [Category -> Nat]
    BY <1>1, RatesAssumption, OwnershipAssumption DEF TypeOK, NoUsage
  <2> QED
    BY <2>1, PriceIsAWord, Zenon
<1>7. EscrowOf(k0[1]) = EscrowOf(s)
  OBVIOUS
<1> HIDE DEF k0, price
<1>8. IsFiniteSet(Reported)'
  <2>1. Reported' = Reported \cup {k0}
    BY <1>1, <1>2, <1>3, <1>4 DEF Reported
  <2> QED
    BY <1>1, <2>1, FS_AddElement, Zenon
<1>9. ASSUME NEW a \in EscrowAccount
      PROVE  balance'[a] = paid_in'[a] - SumFunction(Charges(a)')
  <2>1. balance[a] = paid_in[a] - SumFunction(Charges(a))
    BY <1>1, Zenon DEF EscrowBooksBalance
  <2>2. balance'[a] = IF a = EscrowOf(s) THEN balance[a] - price ELSE balance[a]
    BY <1>1, <1>2, <1>6, ChargeAmounts, Zenon
  <2>3. k0 \notin Reports(a) /\ \A k \in Reports(a) : Price(k)' = Price(k)
    BY <1>2, <1>4, Zenon DEF Reports, Price
  <2>4. CASE a = EscrowOf(s)
    <3>1. Reports(a)' = Reports(a) \cup {k0}
      BY <1>1, <1>3, <1>4, <1>7, <2>4, Zenon DEF Reports, EscrowOf, Escrow
    <3>2. Charges(a) \in [Reports(a) -> Int] /\ SumFunction(Charges(a)) \in Int
      BY <1>1, ChargesTotal
    <3>3. IsFiniteSet(Reports(a))
      BY <1>1, ReportsFinite
    <3>4. Charges(a)' = [k \in Reports(a) \cup {k0} |-> Price(k)']
      BY <3>1 DEF Charges
    <3>5. \A k \in Reports(a) : Charges(a)[k] = Price(k) /\ Price(k) \in Int
      BY <3>2 DEF Charges
    <3>6. /\ Charges(a)' \in [Reports(a) \cup {k0} -> Int]
          /\ Charges(a)'[k0] = price
          /\ \A k \in Reports(a) : Charges(a)'[k] = Charges(a)[k]
      BY <1>5, <1>6, <2>3, <3>4, <3>5, UnitAssumption
    <3>7. SumFunction(Charges(a)') = price + SumFunction(Charges(a))
      <4> DEFINE S == Reports(a)
                 f == Charges(a)
                 e == Charges(a)'
      <4>1. /\ IsFiniteSet(S) /\ k0 \notin S
            /\ f \in [S -> Int] /\ e \in [S \cup {k0} -> Int] /\ e[k0] = price
            /\ \A y \in S : e[y] = f[y]
        BY <2>3, <3>2, <3>3, <3>6, Zenon
      <4> HIDE DEF S, f, e
      <4>2. SumFunction(e) = e[k0] + SumFunction(f)
        BY <4>1, SumOfOneMore
      <4> QED
        BY <4>1, <4>2 DEF e, f
    <3> DEFINE sum == SumFunction(Charges(a))
    <3>8. paid_in[a] \in Int /\ price \in Int /\ sum \in Int
      <4>1. paid_in[a] \in Int
        BY <1>1, Zenon DEF TypeOK
      <4>2. price \in Int
        BY <1>6, UnitAssumption
      <4> QED
        BY <3>2, <4>1, <4>2
    <3>9. /\ balance'[a] = (paid_in[a] - sum) - price /\ paid_in'[a] = paid_in[a]
          /\ SumFunction(Charges(a)') = price + sum
      BY <1>2, <2>1, <2>2, <2>4, <3>7, Zenon
    <3> HIDE DEF sum
    <3>10. (paid_in[a] - sum) - price = paid_in[a] - (price + sum)
      BY <3>8
    <3> QED
      BY <3>9, <3>10, Zenon
  <2>5. CASE a # EscrowOf(s)
    <3>1. Reports(a)' = Reports(a)
      BY <1>1, <1>3, <1>4, <1>7, <2>5, Zenon DEF Reports, EscrowOf, Escrow
    <3>2. Charges(a)' = Charges(a)
      BY <2>3, <3>1 DEF Charges
    <3> QED
      BY <1>2, <2>1, <2>2, <2>5, <3>2, Zenon
  <2> QED
    BY <2>4, <2>5, Zenon
<1> QED
  BY <1>8, <1>9, Zenon DEF EscrowBooksBalance

LEMMA BooksStep == BooksInv /\ [Next]_vars => BooksInv'
<1> SUFFICES ASSUME BooksInv, [Next]_vars PROVE BooksInv'
  OBVIOUS
<1> DEFINE Kept == UNCHANGED <<balance, paid_in, usage_updates, regions>>
           Balanced == IsFiniteSet(Reported)' /\ EscrowBooksBalance'
<1>0. TypeOK' /\ ServedByAuthorizedProviders'
  BY TypeStep, ServedStep DEF BooksInv
<1>1. Kept => Balanced
  BY BooksStay
<1>2. ASSUME NEW c \in 0 .. MICROS + 1, NEW d \in 0 .. MaxDeposit, initialize(c, d)
      PROVE  Kept
  BY <1>2, Zenon DEF initialize, services, money
<1>3. ASSUME NEW d \in 0 .. MaxDeposit, update_provider_deposit(d)
      PROVE  Kept
  BY <1>3 DEF update_provider_deposit, services, money
<1>4. ASSUME NEW x \in Authorizer, create_provider_authorizer(x)
      PROVE  Kept
  BY <1>4 DEF create_provider_authorizer, services, money
<1>5. ASSUME NEW p \in Provider, create_provider(p)
      PROVE  Balanced
  <2>1. /\ balance \in [TokenAccount -> Nat] /\ state.provider_deposit \in Nat
        /\ balance' = Transfer(balance, Wallet(p), Deposit, state.provider_deposit)
        /\ UNCHANGED <<paid_in, usage_updates, regions>>
    BY <1>5, Zenon DEF create_provider, services, BooksInv, TypeOK
  <2>2. Wallet(p)[1] # Deposit[1]
    BY DEF Wallet, Deposit
  <2>3. \A a \in EscrowAccount : a \in TokenAccount /\ a # Wallet(p) /\ a # Deposit
    BY EscrowsApart
  <2>4. \A a \in EscrowAccount : balance'[a] = balance[a]
    BY <2>1, <2>2, <2>3, TransferAmounts
  <2> QED
    BY <2>1, <2>4, BooksStay, Zenon
<1>6. ASSUME NEW p \in Provider, NEW x \in Authorizer, authorize_provider(x, p)
      PROVE  Kept
  BY <1>6 DEF authorize_provider, services, money
<1>7. ASSUME NEW r \in Region, NEW rates \in Rates, create_region(r, rates)
      PROVE  Balanced
  <2>1. /\ regions' = [regions EXCEPT ![r] = [exists |-> TRUE, rates |-> rates]]
        /\ ~regions[r].exists
        /\ UNCHANGED <<balance, paid_in, usage_updates>>
    BY <1>7, Zenon DEF create_region, CreateRegion, money
  <2>2. \A q \in Region : regions[q].exists => regions'[q] = regions[q]
    BY <2>1, Zenon DEF BooksInv, TypeOK
  <2> QED
    BY <2>1, <2>2, BooksStay, Zenon
<1>8. ASSUME NEW r \in Region, create_authorized_usage_signer(r)
      PROVE  Kept
  BY <1>8 DEF create_authorized_usage_signer, money
<1>9. ASSUME NEW s \in Stack, create_stack(s) \/ update_stack(s) \/ delete_stack(s)
      PROVE  Kept
  BY <1>9, Zenon DEF create_stack, update_stack, delete_stack, money
<1>10. ASSUME NEW key \in User \X Signer \X Region,
              \/ create_api_request_signer(key)
              \/ activate_api_request_signer(key)
              \/ deactivate_api_request_signer(key)
       PROVE  Kept
  BY <1>10, Zenon DEF create_api_request_signer, activate_api_request_signer,
               deactivate_api_request_signer, SignerBecomes, money
<1>11. ASSUME NEW u \in User, NEW p \in Provider, create_provider_escrow_account(u, p)
       PROVE  Kept
  BY <1>11 DEF create_provider_escrow_account, services
<1>12. ASSUME NEW u \in User, NEW p \in Provider, NEW amount \in 1 .. MaxTokens,
              recharge(u, p, amount) \/ withdraw_escrow_balance(u, p, amount)
       PROVE  Balanced
  BY <1>12, RechargeBooks, WithdrawBooks
<1>13. ASSUME NEW s \in Stack, NEW seed \in Seed, NEW usage \in Usage,
              update_usage(s, seed, usage)
       PROVE  Balanced
  BY <1>13, UsageBooks
<1>14. ASSUME UNCHANGED vars
       PROVE  Kept
  BY <1>14 DEF vars, services, money
<1> HIDE DEF Kept, Balanced
<1>15. Balanced
  BY <1>1, <1>2, <1>3, <1>4, <1>5, <1>6, <1>7, <1>8, <1>9, <1>10, <1>11, <1>12, <1>13, <1>14, Zenon
     DEF Next
<1> QED
  BY <1>0, <1>15 DEF BooksInv, Balanced

\* update_usage: at any time, for any number of stacks, reports and escrows, what
\* is left in an escrow is what was paid in less the price of every report on
\* chain: each is charged once, at its region's rates, and to nobody else.
THEOREM BooksAlwaysBalance == Spec => []EscrowBooksBalance
<1>1. BooksInv => EscrowBooksBalance
  BY DEF BooksInv
<1> QED
  BY <1>1, BooksInit, BooksStep, PTL DEF Spec
=============================================================================
