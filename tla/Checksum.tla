------------------------------ MODULE Checksum ------------------------------
(***************************************************************************)
(* The Internet checksum of an IP header as PCom-dataplane-router computes *)
(* it (lib/lib.c), and how router.c updates it when it decrements ttl.     *)
(* A header is a sequence of 16-bit words in host order; the router is     *)
(* little-endian, so htons swaps the bytes of a word.                      *)
(***************************************************************************)
EXTENDS Integers, Sequences

Word == 65536

htons(w) == ((w % 256) * 256) + (w \div 256)

\* C's complement of an int.
Complement(n) == -n - 1

checksum(words) ==
    LET sum[n \in 0 .. Len(words)] == IF n = 0 THEN 0 ELSE sum[n - 1] + words[n]
        total == sum[Len(words)]
        folded == (total \div Word) + (total % Word)
        again == folded + (folded \div Word)
    IN  Complement(again) % Word

\* A bug: adding in two's complement, the carry at the end is not taken back.
UpdatedCheck_OneMore(old_checksum, ttl) ==
    htons(Complement(Complement(htons(old_checksum)) + Complement(ttl + 1) + ttl) % Word)

\* The check field after ttl + 1 has become ttl.
UpdatedCheck(old_checksum, ttl) ==
    htons((Complement(Complement(htons(old_checksum)) + Complement(ttl + 1) + ttl) - 1) % Word)
=============================================================================
