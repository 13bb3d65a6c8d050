----------------------------- MODULE Addresses ------------------------------
(***************************************************************************)
(* Whom a session's blocks pay (crates/alamo-core/src/payout.rs and        *)
(* address.rs): the parent chain pays the address in the user name, an aux *)
(* chain the first address of its own among the tokens of the password,    *)
(* and either its fallback when there is none.                             *)
(*                                                                         *)
(* An address is what its characters decode to; checksums are left out.    *)
(* Base58 has a version byte and a length, a segwit address a prefix, a    *)
(* version and the length of its program.  A token is its key (of a bare   *)
(* one "bare") and value.  The chains are Litecoin and Dogecoin main.      *)
(***************************************************************************)
EXTENDS Integers, Sequences

Base58(v, len) == [form |-> "base58", version |-> v, len |-> len, hrp |-> "none"]
Segwit(hrp, v, len) == [form |-> "segwit", version |-> v, len |-> len, hrp |-> hrp]
Junk == [form |-> "junk", version |-> 0, len |-> 0, hrp |-> "none"]

LtcParams  == [p2pkh |-> 48, p2sh |-> {50, 5}, hrp |-> "ltc"]
DogeParams == [p2pkh |-> 30, p2sh |-> {22}, hrp |-> "absent"]
LtcFallback == Base58(48, 21)
DogeFallback == Base58(30, 21)

Hash160 == [i \in 1..20 |-> 9]
Program(len) == [i \in 1..len |-> 9]
WitnessOpcode(v) == IF v = 0 THEN 0 ELSE 80 + v

AnyProgram(a) == a.version <= 16
ValidProgram(a) ==
  \/ a.version = 0 /\ a.len \in {20, 32}
  \/ a.version \in 1..16 /\ a.len \in 2..40

(* payout_script: the scriptPubKey, or <<>> for any of the errors.         *)
P2pkh == <<118, 169, 20>> \o Hash160 \o <<136, 172>>
P2sh == <<169, 20>> \o Hash160 \o <<135>>
AnyVersion(a, params) == P2sh
OwnVersion(a, params) ==
  IF a.version = params.p2pkh THEN P2pkh
  ELSE IF a.version \in params.p2sh THEN P2sh ELSE <<>>
PayoutScript(a, params) ==
  IF a.form = "segwit" /\ a.hrp = params.hrp /\ ValidProgram(a)
  THEN <<WitnessOpcode(a.version), a.len>> \o Program(a.len)
  ELSE IF a.form = "base58" /\ a.len = 21 THEN OwnVersion(a, params) ELSE <<>>

----------------------------------------------------------------------------
Fallback(a, params) == [address |-> a, script |-> PayoutScript(a, params), fallback |-> TRUE]
Parse(a, params) == [address |-> a, script |-> PayoutScript(a, params), fallback |-> FALSE]

Given(a, params) == a # Junk
Valid(a, params) == PayoutScript(a, params) # <<>>

KeyFits(token) == token.key \in {"bare", "doge", "DOGE"}

Resolve(user, tokens) ==
  LET usable == {i \in DOMAIN tokens : KeyFits(tokens[i]) /\ Valid(tokens[i].value, DogeParams)}
      first  == CHOOSE i \in usable : \A j \in usable : i <= j
  IN [parent |-> IF Valid(user, LtcParams) THEN Parse(user, LtcParams)
                 ELSE Fallback(LtcFallback, LtcParams),
      aux    |-> IF usable # {} THEN Parse(tokens[first].value, DogeParams)
                 ELSE Fallback(DogeFallback, DogeParams)]
=============================================================================
