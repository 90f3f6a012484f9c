------------------------------ MODULE Billing ------------------------------
(***************************************************************************)
(* From what a request used to the tokens it costs: the usage categories   *)
(* of the executor (executor/src/stack/usage_aggregator.rs) and the price  *)
(* computation of the marketplace program                                  *)
(* (marketplace/programs/marketplace/src/lib.rs).                          *)
(*                                                                         *)
(* The program is built without overflow checks, so u64 and u128           *)
(* operations wrap; the widths and the units are parameters.               *)
(***************************************************************************)
EXTENDS Integers

CONSTANTS U64, U128,          \* 2^64 and 2^128
          MICROS,             \* 1_000_000
          TERA,               \* instructions of a tera-instruction
          GIGABYTE_MONTH,     \* byte-seconds of a gigabyte-month
          GIGABYTE            \* bytes of a gigabyte

ASSUME UnitAssumption ==
    /\ U64 \in Nat \ {0} /\ U128 \in Nat \ {0}
    /\ MICROS \in Nat \ {0} /\ TERA \in Nat \ {0}
    /\ GIGABYTE_MONTH \in Nat \ {0} /\ GIGABYTE \in Nat \ {0}

Category == {"function_mb_instructions", "db_bytes_seconds", "db_reads",
             "db_writes", "gateway_requests", "gateway_traffic_bytes"}

NoUsage == [c \in Category |-> 0]

\* A strong operation counts as two weak ones.  Usage and amounts are u128 here.
DBRead(weak_reads, strong_reads) ==
    [NoUsage EXCEPT !["db_reads"] = weak_reads + 2 * strong_reads]
DBWrite(weak_writes, strong_writes) ==
    [NoUsage EXCEPT !["db_writes"] = weak_writes + 2 * strong_writes]
FunctionMBInstructions(memory_megabytes, instructions) ==
    [NoUsage EXCEPT !["function_mb_instructions"] = memory_megabytes * instructions]
GatewayUsage(requests, traffic) ==
    [NoUsage EXCEPT !["gateway_requests"] = requests, !["gateway_traffic_bytes"] = traffic]

Plus(a, b) == [c \in Category |-> a[c] + b[c]]

\* ServiceUsage: all but the first two are u64, cast from the u128 amounts.
ServiceUsage(amount) ==
    [c \in Category |-> IF c \in {"function_mb_instructions", "db_bytes_seconds"}
                        THEN amount[c] % U128 ELSE amount[c] % U64]

----------------------------------------------------------------------------
Wide(rate, amount, unit) == (((rate * amount) % U128) \div unit) % U64
Narrow(rate, amount, unit) == ((rate * amount) % U64) \div unit

calc_usage(rates, usage) ==
    (Wide(rates["function_mb_instructions"], usage["function_mb_instructions"], TERA)
        + Wide(rates["db_bytes_seconds"], usage["db_bytes_seconds"], GIGABYTE_MONTH)
        + Narrow(rates["db_reads"], usage["db_reads"], MICROS)
        + Narrow(rates["db_writes"], usage["db_writes"], MICROS)
        + Narrow(rates["gateway_requests"], usage["gateway_requests"], MICROS)
        + Narrow(rates["gateway_traffic_bytes"], usage["gateway_traffic_bytes"], GIGABYTE))
    % U64

\* The commission on a price, and what is left for the provider.
commission_tokens(price, rate_micros) == ((price * rate_micros) % U64) \div MICROS
provider_tokens(price, rate_micros) == (price - commission_tokens(price, rate_micros)) % U64
=============================================================================
