-------------------------------- MODULE Tunnel --------------------------------
(***************************************************************************)
(* x/tunnel: tunnels push price packets to other chains.  A tunnel is      *)
(* active while its deposit is high enough and its own account, the fee    *)
(* payer, can pay for a packet.  Transactions run in phase "tx"; the       *)
(* EndBlocker (phase "produce") visits the tunnels that were active when   *)
(* it began, in the order of their IDs, one step each.                     *)
(*                                                                         *)
(* Amounts are numbers of one denomination.  Prices are numbers, 0 is the  *)
(* price of a signal without a price.  The routes (x/bandtss and IBC) may  *)
(* refuse a packet at any time.                                            *)
(***************************************************************************)
EXTENDS Integers, FiniteSets, Functions

CONSTANTS
  TunnelIds,            \* 1 .. the number of tunnels ever created
  Users,                \* accounts that create, fund and deposit
  Signals,
  Prices,               \* prices the feeds publish
  Deviations,           \* SignalDeviations a tunnel may have: functions from a
                        \*   set of signals to [soft, hard] in basis points
  Intervals,            \* intervals a tunnel may have
  MinDeposits, BaseFees, SigningFees,   \* values of the parameters
  Amounts,              \* amounts of a deposit, withdrawal or transfer
  Wealth,               \* what every user owns at the start
  StartTime, MaxTime    \* block times considered

ASSUME TunnelAssumption ==
  /\ TunnelIds \subseteq Nat \ {0} /\ IsFiniteSet(TunnelIds) /\ IsFiniteSet(Users)
  /\ Prices \subseteq Nat \ {0}
  /\ Intervals \subseteq Nat \ {0} /\ Amounts \subseteq Nat \ {0}
  /\ MinDeposits \subseteq Nat /\ BaseFees \subseteq Nat /\ SigningFees \subseteq Nat
  /\ {Wealth, StartTime, MaxTime} \subseteq Nat /\ StartTime <= MaxTime
  /\ \A i \in Intervals : i <= StartTime
\* MinDeviationBPS is positive.
ASSUME DeviationsAssumption ==
  \A d \in Deviations :
    DOMAIN d \subseteq Signals /\ \A s \in DOMAIN d : {d[s].soft, d[s].hard} \subseteq Nat \ {0}

VARIABLES
  tunnels,          \* tunnels[t]: Tunnel t, for the tunnels created so far
  activeIDs,        \* the store of active tunnel IDs
  latestPrices,     \* latestPrices[t]: LatestPrices of t
  packets,          \* packets[t]: of the packets of t its route accepted, the
                    \*   number, the base fees and the last price of each signal
  deposits,         \* deposits[t][u]: Deposit of u in t, 0 when there is none
  totalFees,        \* TotalFees.TotalBasePacketFee
  moduleBalance,    \* coins of the module account
  wallet,           \* wallet[u]: coins of user u
  payer,            \* payer[t]: coins of the fee payer of t
  params,           \* [minDeposit, baseFee]
  signingFee,       \* what x/bandtss asks for a signature (GetSigningFee)
  feeds,            \* feeds[s]: the price x/feeds publishes, 0 for none
  time,
  phase, todo       \* position in the block and the tunnels still to visit

moneyVars == <<deposits, totalFees, moduleBalance, wallet, payer>>
envVars == <<params, signingFee, feeds, time>>
vars == <<tunnels, activeIDs, latestPrices, packets, moneyVars, envVars, phase, todo>>

Created == DOMAIN tunnels
NewLatestPrices == [prices |-> << >>, lastInterval |-> 0]

(***************************************************************************)
(* Deposits.                                                               *)
(***************************************************************************)
MeetsDeposit(amount) == amount >= params.minDeposit

\* Only the denominations of MinDeposit are accepted.
AcceptsDeposit == params.minDeposit > 0

\* Adds a deposit of u to the (possibly new) tunnel t with record tunnel.
Deposit(t, tunnel, u, amount) ==
  /\ amount <= wallet[u]
  /\ wallet' = [wallet EXCEPT ![u] = @ - amount]
  /\ moduleBalance' = moduleBalance + amount
  /\ deposits' = [deposits EXCEPT ![t][u] = @ + amount]
  /\ tunnels' = [x \in Created \cup {t} |->
                   IF x = t THEN [tunnel EXCEPT !.totalDeposit = @ + amount]
                            ELSE tunnels[x]]

\* MsgCreateTunnel, with an initial deposit or without.
CreateTunnel(u, kind, deviations, interval, amount) ==
  LET t == Cardinality(Created) + 1
      tunnel == [creator |-> u, kind |-> kind, channel |-> FALSE, sequence |-> 0,
                 deviations |-> deviations, interval |-> interval,
                 totalDeposit |-> 0, isActive |-> FALSE]
  IN  /\ phase = "tx"
      /\ t \in TunnelIds
      /\ amount > 0 => AcceptsDeposit
      /\ Deposit(t, tunnel, u, amount)
      /\ latestPrices' = [latestPrices EXCEPT ![t] = NewLatestPrices]
      /\ UNCHANGED <<activeIDs, packets, totalFees, payer, envVars, phase, todo>>

DepositToTunnel(t, u, amount) ==
  /\ phase = "tx"
  /\ t \in Created
  /\ AcceptsDeposit
  /\ Deposit(t, tunnels[t], u, amount)
  /\ UNCHANGED <<activeIDs, latestPrices, packets, totalFees, payer, envVars, phase, todo>>

\* A depositor takes out at most its own deposit.
Withdrawable(t, u) == deposits[t][u]

\* MsgWithdrawFromTunnel: also deactivates a tunnel whose deposit became too low.
WithdrawFromTunnel(t, u, amount) ==
  LET left == tunnels[t].totalDeposit - amount
      tooLow == tunnels[t].isActive /\ ~MeetsDeposit(left)
  IN  /\ phase = "tx"
      /\ t \in Created
      /\ amount <= Withdrawable(t, u)
      /\ amount <= moduleBalance
      /\ moduleBalance' = moduleBalance - amount
      /\ wallet' = [wallet EXCEPT ![u] = @ + amount]
      /\ deposits' = [deposits EXCEPT ![t][u] = @ - amount]
      /\ tunnels' = [tunnels EXCEPT ![t].totalDeposit = left,
                                  ![t].isActive = @ /\ ~tooLow]
      /\ activeIDs' = IF tooLow THEN activeIDs \ {t} ELSE activeIDs
      /\ UNCHANGED <<latestPrices, packets, totalFees, payer, envVars, phase, todo>>

(***************************************************************************)
(* The settings of a tunnel, by its creator.                               *)
(***************************************************************************)
\* MsgUpdateRoute: an IBC tunnel is given its channel.
UpdateRoute(t) ==
  /\ phase = "tx"
  /\ t \in Created
  /\ tunnels[t].kind = "ibc"
  /\ tunnels' = [tunnels EXCEPT ![t].channel = TRUE]
  /\ UNCHANGED <<activeIDs, latestPrices, packets, moneyVars, envVars, phase, todo>>

ResetPrices(t) == [latestPrices EXCEPT ![t] = NewLatestPrices]

UpdateSignalsAndInterval(t, deviations, interval) ==
  /\ phase = "tx"
  /\ t \in Created
  /\ tunnels' = [tunnels EXCEPT ![t].deviations = deviations, ![t].interval = interval]
  /\ latestPrices' = ResetPrices(t)
  /\ UNCHANGED <<activeIDs, packets, moneyVars, envVars, phase, todo>>

\* MsgWithdrawFeePayerFunds.
WithdrawFeePayerFunds(t, amount) ==
  /\ phase = "tx"
  /\ t \in Created
  /\ amount <= payer[t]
  /\ payer' = [payer EXCEPT ![t] = @ - amount]
  /\ wallet' = [wallet EXCEPT ![tunnels[t].creator] = @ + amount]
  /\ UNCHANGED <<tunnels, activeIDs, latestPrices, packets, deposits, totalFees,
                 moduleBalance, envVars, phase, todo>>

ActivateTunnel(t) ==
  /\ MeetsDeposit(tunnels[t].totalDeposit)
  /\ activeIDs' = activeIDs \cup {t}
  /\ tunnels' = [tunnels EXCEPT ![t].isActive = TRUE]

Activate(t) ==
  /\ phase = "tx"
  /\ t \in Created
  /\ ~tunnels[t].isActive
  /\ ActivateTunnel(t)
  /\ UNCHANGED <<latestPrices, packets, moneyVars, envVars, phase, todo>>

\* A mutant of DeactivateTunnel: the store of active IDs is forgotten.
DeactivateTunnel_IndexKept(t) ==
  tunnels' = [tunnels EXCEPT ![t].isActive = FALSE] /\ UNCHANGED activeIDs
DeactivateTunnel(t) ==
  /\ activeIDs' = activeIDs \ {t}
  /\ tunnels' = [tunnels EXCEPT ![t].isActive = FALSE]

Deactivate(t) ==
  /\ phase = "tx"
  /\ t \in Created
  /\ tunnels[t].isActive
  /\ DeactivateTunnel(t)
  /\ UNCHANGED <<latestPrices, packets, moneyVars, envVars, phase, todo>>

(***************************************************************************)
(* Packets.                                                                *)
(***************************************************************************)
GetRouteFee(t) == IF tunnels[t].kind = "tss" THEN signingFee ELSE 0
HasEnoughFundToCreatePacket(t) == payer[t] >= params.baseFee + GetRouteFee(t)

MaxDeviation == 1000000        \* stands for math.MaxInt64
calculateDeviationBPS(old, new) ==
  IF new = old THEN 0
  ELSE IF old = 0 THEN MaxDeviation
  ELSE ((IF new > old THEN new - old ELSE old - new) * 10000) \div old

SentPrice(t, s) ==
  IF s \in DOMAIN latestPrices[t].prices THEN latestPrices[t].prices[s] ELSE 0
DeviationOf(t, s) == calculateDeviationBPS(SentPrice(t, s), feeds[s])

SendAll(t) == time >= tunnels[t].interval + latestPrices[t].lastInterval

\* A mutant of GenerateNewPrices: it stops at the first price over the threshold.
GenerateNewPrices_First(t) ==
  LET dev == tunnels[t].deviations
      over == {s \in DOMAIN dev : SendAll(t) \/ DeviationOf(t, s) >= dev[s].hard}
  IN  IF over = {} THEN << >> ELSE LET s == CHOOSE s \in over : TRUE
                                   IN  [x \in {s} |-> feeds[x]]
\* The prices of the next packet: all of them when the interval is over, those
\* over their soft deviation when one is over its hard deviation, or none.
GenerateNewPrices(t) ==
  LET dev == tunnels[t].deviations
      Reaches(s, bps) == SendAll(t) \/ DeviationOf(t, s) >= bps
      chosen == {s \in DOMAIN dev : Reaches(s, dev[s].hard) \/ Reaches(s, dev[s].soft)}
  IN  IF \E s \in DOMAIN dev : Reaches(s, dev[s].hard)
      THEN [s \in chosen |-> feeds[s]]
      ELSE << >>

\* Prices new over prices old.
Over(new, old) ==
  [s \in DOMAIN new \cup DOMAIN old |-> IF s \in DOMAIN new THEN new[s] ELSE old[s]]

CreatePacket(t, prices) ==
  /\ payer' = [payer EXCEPT ![t] = @ - params.baseFee - GetRouteFee(t)]
  /\ moduleBalance' = moduleBalance + params.baseFee
  /\ totalFees' = totalFees + params.baseFee
  /\ tunnels' = [tunnels EXCEPT ![t].sequence = @ + 1]
  /\ packets' = [packets EXCEPT
       ![t] = [count |-> @.count + 1, fees |-> @.fees + params.baseFee,
               last |-> Over(prices, @.last)]]

\* The new prices take the place of the old ones.
UpdatePrices(old, new) == Over(new, old)

RecordPrices(t, prices, restart) ==
  latestPrices' = [latestPrices EXCEPT
    ![t] = [prices |-> UpdatePrices(@.prices, prices),
            lastInterval |-> IF restart THEN time ELSE @.lastInterval]]

RouteWorks(t) == tunnels[t].kind = "ibc" => tunnels[t].channel

\* MsgTriggerTunnel: a packet with every price, now.
TriggerTunnel(t) ==
  LET prices == [s \in DOMAIN tunnels[t].deviations |-> feeds[s]]
  IN  /\ phase = "tx"
      /\ t \in Created
      /\ tunnels[t].isActive
      /\ HasEnoughFundToCreatePacket(t)
      /\ RouteWorks(t)
      /\ CreatePacket(t, prices)
      /\ RecordPrices(t, prices, TRUE)
      /\ UNCHANGED <<activeIDs, deposits, wallet, envVars, phase, todo>>

(***************************************************************************)
(* The EndBlocker.                                                         *)
(***************************************************************************)
EndBlock ==
  /\ phase = "tx"
  /\ phase' = "produce"
  /\ todo' = activeIDs
  /\ UNCHANGED <<tunnels, activeIDs, latestPrices, packets, moneyVars, envVars>>

\* A mutant of PacketRefused: what ProducePacket did before the route refused
\* is written.
PacketRefused_NotCached(t) ==
  /\ payer' = [payer EXCEPT ![t] = @ - params.baseFee]
  /\ moduleBalance' = moduleBalance + params.baseFee
  /\ totalFees' = totalFees + params.baseFee
  /\ tunnels' = [tunnels EXCEPT ![t].sequence = @ + 1]
  /\ UNCHANGED <<packets, latestPrices, activeIDs>>
\* A mutant of PacketRefused: the prices are taken for sent.
PacketRefused_PricesKept(t) ==
  /\ RecordPrices(t, GenerateNewPrices(t), SendAll(t))
  /\ UNCHANGED <<payer, moduleBalance, totalFees, tunnels, packets, activeIDs>>
\* The route refused the packet: the cached writes are dropped.
PacketRefused(t) ==
  UNCHANGED <<payer, moduleBalance, totalFees, tunnels, packets, latestPrices, activeIDs>>

\* ProduceActiveTunnelPacket for the next tunnel, the one with the least ID.
Produce(t, accepted) ==
  LET prices == GenerateNewPrices(t)
  IN  /\ phase = "produce"
      /\ \A x \in todo : t <= x
      /\ todo' = todo \ {t}
      /\ IF ~HasEnoughFundToCreatePacket(t)
         THEN /\ DeactivateTunnel(t)
              /\ UNCHANGED <<latestPrices, packets, totalFees, moduleBalance, payer>>
         ELSE IF DOMAIN prices = {}
         THEN UNCHANGED <<tunnels, activeIDs, latestPrices, packets, totalFees,
                          moduleBalance, payer>>
         ELSE IF accepted /\ RouteWorks(t)
         THEN /\ CreatePacket(t, prices)
              /\ RecordPrices(t, prices, SendAll(t))
              /\ UNCHANGED activeIDs
         ELSE PacketRefused(t)
      /\ UNCHANGED <<deposits, wallet, envVars, phase>>

NextBlock ==
  /\ phase = "produce"
  /\ todo = {}
  /\ phase' = "tx"
  /\ time' = IF time < MaxTime THEN time + 1 ELSE time
  /\ UNCHANGED <<tunnels, activeIDs, latestPrices, packets, moneyVars, params,
                 signingFee, feeds, todo>>

(***************************************************************************)
(* Parameters and the other modules.                                       *)
(***************************************************************************)
UpdateParams(minDeposit, baseFee) ==
  /\ phase = "tx"
  /\ params' = [minDeposit |-> minDeposit, baseFee |-> baseFee]
  /\ UNCHANGED <<tunnels, activeIDs, latestPrices, packets, moneyVars, signingFee,
                 feeds, time, phase, todo>>

\* Anyone may send coins to the fee payer of a tunnel.
FundFeePayer(t, u, amount) ==
  /\ phase = "tx"
  /\ t \in Created
  /\ amount <= wallet[u]
  /\ wallet' = [wallet EXCEPT ![u] = @ - amount]
  /\ payer' = [payer EXCEPT ![t] = @ + amount]
  /\ UNCHANGED <<tunnels, activeIDs, latestPrices, packets, deposits, totalFees,
                 moduleBalance, envVars, phase, todo>>

\* x/feeds publishes a price or withdraws it.
PublishPrice(s, price) ==
  /\ phase = "tx"
  /\ feeds' = [feeds EXCEPT ![s] = price]
  /\ UNCHANGED <<tunnels, activeIDs, latestPrices, packets, moneyVars, params,
                 signingFee, time, phase, todo>>

\* x/bandtss changes its fee or its group.
ChangeSigningFee(fee) ==
  /\ phase = "tx"
  /\ signingFee' = fee
  /\ UNCHANGED <<tunnels, activeIDs, latestPrices, packets, moneyVars, params,
                 feeds, time, phase, todo>>

Init ==
  /\ tunnels = << >>
  /\ activeIDs = {}
  /\ latestPrices = [t \in TunnelIds |-> NewLatestPrices]
  /\ packets = [t \in TunnelIds |-> [count |-> 0, fees |-> 0, last |-> << >>]]
  /\ deposits = [t \in TunnelIds |-> [u \in Users |-> 0]]
  /\ totalFees = 0
  /\ moduleBalance = 0
  /\ wallet = [u \in Users |-> Wealth]
  /\ payer = [t \in TunnelIds |-> 0]
  /\ params \in [minDeposit : MinDeposits, baseFee : BaseFees]
  /\ signingFee \in SigningFees
  /\ feeds = [s \in Signals |-> 0]
  /\ time = StartTime
  /\ phase = "tx"
  /\ todo = {}

Next ==
  \/ \E u \in Users, kind \in {"tss", "ibc"}, d \in Deviations, i \in Intervals,
        amount \in Amounts \cup {0} : CreateTunnel(u, kind, d, i, amount)
  \/ \E t \in TunnelIds, u \in Users, amount \in Amounts : DepositToTunnel(t, u, amount)
  \/ \E t \in TunnelIds, u \in Users, amount \in Amounts : WithdrawFromTunnel(t, u, amount)
  \/ \E t \in TunnelIds : UpdateRoute(t)
  \/ \E t \in TunnelIds, d \in Deviations, i \in Intervals :
       UpdateSignalsAndInterval(t, d, i)
  \/ \E t \in TunnelIds, amount \in Amounts : WithdrawFeePayerFunds(t, amount)
  \/ \E t \in TunnelIds : Activate(t)
  \/ \E t \in TunnelIds : Deactivate(t)
  \/ \E t \in TunnelIds : TriggerTunnel(t)
  \/ \E minDeposit \in MinDeposits, baseFee \in BaseFees : UpdateParams(minDeposit, baseFee)
  \/ \E t \in TunnelIds, u \in Users, amount \in Amounts : FundFeePayer(t, u, amount)
  \/ \E s \in Signals, price \in Prices \cup {0} : PublishPrice(s, price)
  \/ \E fee \in SigningFees : ChangeSigningFee(fee)
  \/ EndBlock
  \/ \E t \in todo, accepted \in BOOLEAN : Produce(t, accepted)
  \/ NextBlock

Spec == Init /\ [][Next]_vars

(***************************************************************************)
(* Properties.                                                             *)
(***************************************************************************)
TunnelRecord ==
  [creator : Users, kind : {"tss", "ibc"}, channel : BOOLEAN, sequence : Nat,
   deviations : Deviations, interval : Intervals, totalDeposit : Nat,
   isActive : BOOLEAN]

\* The state is well typed: no account is overdrawn.
TypeOK ==
  /\ Created \subseteq TunnelIds /\ \A t \in Created : tunnels[t] \in TunnelRecord
  /\ activeIDs \subseteq Created
  /\ \A t \in TunnelIds :
       /\ DOMAIN latestPrices[t].prices \subseteq Signals
       /\ latestPrices[t].lastInterval \in 0..MaxTime
  /\ deposits \in [TunnelIds -> [Users -> Nat]]
  /\ totalFees \in Nat /\ moduleBalance \in Nat
  /\ wallet \in [Users -> Nat] /\ payer \in [TunnelIds -> Nat]
  /\ params \in [minDeposit : MinDeposits, baseFee : BaseFees]
  /\ signingFee \in SigningFees
  /\ feeds \in [Signals -> Prices \cup {0}]
  /\ time \in StartTime..MaxTime
  /\ phase \in {"tx", "produce"} /\ todo \subseteq Created

DepositsIn(t) == SumFunctionOnSet(deposits[t], Users)
Deposited == [t \in TunnelIds |-> DepositsIn(t)]
PacketFees == [t \in TunnelIds |-> packets[t].fees]

\* The total deposit of a tunnel is the sum of its depositors' deposits, and the
\* module account holds exactly the deposits and the base fees collected
\* (DepositToTunnel, WithdrawFromTunnel, CreatePacket): InitGenesis panics on an
\* exported state where it does not.  A packet a route refuses leaves no trace in
\* either: the sequence of a tunnel counts the packets that were sent and every base
\* fee collected belongs to one of them (ProduceActiveTunnelPacket).
ModuleBalanceExact ==
  /\ \A t \in Created : tunnels[t].totalDeposit = DepositsIn(t)
  /\ moduleBalance = SumFunctionOnSet(Deposited, TunnelIds) + totalFees
  /\ \A t \in Created : tunnels[t].sequence = packets[t].count
  /\ totalFees = SumFunctionOnSet(PacketFees, TunnelIds)

\* The prices a tunnel compares new prices with are the ones the destination
\* received last (UpdatePrices, UpdateSignalsAndInterval).
LatestIsDelivered ==
  \A t \in Created : \A s \in DOMAIN latestPrices[t].prices :
    s \in DOMAIN packets[t].last /\ packets[t].last[s] = latestPrices[t].prices[s]

\* After a packet no signal of the tunnel is left over its hard deviation
\* (GenerateNewPrices, TriggerTunnel).
FreshAfterPacket ==
  [][\A t \in Created : packets'[t].count > packets[t].count =>
       \A s \in DOMAIN tunnels[t].deviations :
         DeviationOf(t, s)' < tunnels[t].deviations[s].hard]_vars

\* The store of active IDs, which the EndBlocker iterates over, agrees with the
\* flags of the tunnels, and only governance, by raising the minimum, leaves an
\* active tunnel with less than the minimum deposit: no activation and no
\* withdrawal does, also not while the tunnel is short already (ActivateTunnel,
\* DeactivateTunnel, WithdrawFromTunnel).
ActiveIsBacked ==
  [][/\ activeIDs' = {t \in Created' : tunnels'[t].isActive}
     /\ \A t \in activeIDs' :
          tunnels'[t].totalDeposit < params'.minDeposit =>
            /\ t \in activeIDs
            /\ \/ params'.minDeposit > params.minDeposit
               \/ /\ tunnels[t].totalDeposit < params.minDeposit
                  /\ tunnels'[t].totalDeposit >= tunnels[t].totalDeposit]_vars
=============================================================================
