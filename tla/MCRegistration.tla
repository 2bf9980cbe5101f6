--------------------------- MODULE MCRegistration ---------------------------
(* r1 and r2 are one person trying twice, r3 another with the same address, *)
(* r4 has a password that bcrypt refuses; r5 and r6 have an address of      *)
(* their own, but one a phone number that is too short and the other a name *)
(* that is too long.                                                        *)
EXTENDS Registration

CONSTANTS r1, r2, r3, r4, r5, r6, a, b

MCAddressOf == [r \in Requests |-> IF r \in {r5, r6} THEN b ELSE a]
MCPasswordOf == [r \in Requests |-> IF r = r3 THEN "hers" ELSE "his"]
MCRefusedBy == [r \in Requests |->
                  CASE r = r4 -> "hash"
                    [] r = r5 -> "format"
                    [] r = r6 -> "column"
                    [] OTHER  -> "nothing"]
=============================================================================
