---------------------------- MODULE MCAWGConfig -----------------------------
(* AWGConfig on sections of a few families: within a family every subset   *)
(* of the keys is tried, with values on both sides of each limit.          *)
EXTENDS AWGConfig

(* The sections that have some of the keys, each with one of its texts. *)
SectionsOf(keys, texts) == UNION {[ks -> texts] : ks \in SUBSET keys}

Number(n) == <<n>>
Negative(n) == <<Blank, n>>

(* Headers around the defaults 1 .. 4: numbers, and ranges in and out of   *)
(* order, up to one past the largest uint32.                               *)
HeaderSections ==
    SectionsOf(HeaderKey, {<<2>>, <<4>>, <<1, 1>>, <<3, 5>>, <<5, 3>>, <<5, 6>>, <<0, MaxUint32>>, <<6, MaxUint32 + 1>>})

(* Junk parameters around 1, 128 and 1280, and a negative one. *)
JunkSections ==
    SectionsOf({"Jc", "Jmin", "Jmax"},
               {Number(0), Number(1), Number(128), Number(129), Number(1280), Number(1281),
                Number(MaxInt + 1), Negative(1), <<5, 6>>})

(* Paddings that make two messages equally long, that are a nonce long or  *)
(* one short of it, and that overflow.                                     *)
PaddingSections ==
    LET paddings == SectionsOf(PaddingKey, {Number(11), Number(12), Number(40), Number(56), Number(68), Number(MaxInt), Negative(28)})
        keyed(p) == [k \in DOMAIN p \cup {ProtectionKey} |->
                        IF k \in DOMAIN p THEN p[k] ELSE <<Base64Key>>]
    IN  paddings \cup {keyed(p) : p \in paddings}

(* Texts of every kind under the remaining keys. *)
OtherSections ==
    SectionsOf({"I1", "RekeyTimeout", "RandomTrailers", ProtectionKey},
               {<<Blank>>, <<Junk>>, <<3>>, <<3, 5>>, <<5, 3>>, <<3, 4, 5>>, <<Yes>>, <<No>>, <<Base64Key>>})
    \cup SectionsOf(RangeKey \ {"RekeyTimeout"}, {<<2, 4>>})
    \cup SectionsOf({"I2", "I3", "I4", "I5", "DisableCookies"}, {<<Yes>>})

MCSection == HeaderSections \cup JunkSections \cup PaddingSections \cup OtherSections
=============================================================================
