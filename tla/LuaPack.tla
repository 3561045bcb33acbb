------------------------------ MODULE LuaPack ------------------------------
(***************************************************************************)
(* string.pack, string.packsize and string.unpack (lstrlib.c).  A format   *)
(* is a sequence of options as getoption reads them; a byte has NB bits    *)
(* and a Lua integer, like size_t, SZINT bytes.  The machine is little     *)
(* endian.  A float is the sequence of its bytes.                          *)
(***************************************************************************)
EXTENDS Integers, Sequences, SequencesExt, FiniteSetsExt

CONSTANTS NB, SZINT

ASSUME PackAssumption == NB \in Nat \ {0} /\ SZINT \in Nat \ {0}

MC == 2 ^ NB - 1
Modulus == 2 ^ (NB * SZINT)
ToUnsigned(n) == n % Modulus
ToSigned(u) == IF u >= Modulus \div 2 THEN u - Modulus ELSE u

\* Options.  An 'X' carries the size of the option that it takes its alignment from.
Opt(k, size) == [k |-> k, size |-> size, align |-> size]
Xopt(align) == [k |-> "paddalign", size |-> 0, align |-> align]
Little == [k |-> "endian", size |-> 0, align |-> 0]
Big == [k |-> "endian", size |-> 0, align |-> 1]
MaxAlign(n) == [k |-> "maxalign", size |-> 0, align |-> n]

initheader == [islittle |-> TRUE, maxalign |-> 1]

\* getoption, for the options that only set the header.
getoption(h, o) ==
  CASE o.k = "endian" -> [h EXCEPT !.islittle = o.align = 0]
    [] o.k = "maxalign" -> [h EXCEPT !.maxalign = o.align]
    [] OTHER -> h

\* getdetails: the padding before an option, or an error.
PowersOfTwo == {2 ^ k : k \in 0 .. 8}
Aligns(o) == o.k \in {"int", "uint", "float", "string", "paddalign"} /\ o.align > 1
AlignOf(h, o) == Min({o.align, h.maxalign})
BadAlign(h, o) == (o.k = "paddalign" /\ o.align = 0) \/ (Aligns(o) /\ AlignOf(h, o) \notin PowersOfTwo)
ntoalign(h, o, total) == IF Aligns(o) THEN (-total) % AlignOf(h, o) ELSE 0

InOrder(bytes, islittle) == IF islittle THEN bytes ELSE Reverse(bytes)
Pad(n) == [i \in 1 .. n |-> 0]

packint(n, islittle, size, neg) ==
  InOrder([i \in 1 .. size |-> IF neg /\ i > SZINT THEN MC ELSE (n \div 2 ^ (NB * (i - 1))) % 2 ^ NB], islittle)

copywithendian(bytes, islittle) == InOrder(bytes, islittle)

\* Whether the argument is refused, and the bytes of it (str_pack).
Refused(o, a) ==
  CASE o.k = "int" -> o.size < SZINT /\ ~(-(2 ^ (o.size * NB - 1)) <= a /\ a < 2 ^ (o.size * NB - 1))
    [] o.k = "uint" -> o.size < SZINT /\ ToUnsigned(a) >= 2 ^ (o.size * NB)
    [] o.k = "string" -> o.size < SZINT /\ Len(a) >= 2 ^ (o.size * NB)
    [] o.k = "zstr" -> 0 \in ToSet(a)
    [] OTHER -> FALSE

Bytes(h, o, a) ==
  CASE o.k = "int" -> packint(ToUnsigned(a), h.islittle, o.size, a < 0)
    [] o.k = "uint" -> packint(ToUnsigned(a), h.islittle, o.size, FALSE)
    [] o.k = "float" -> copywithendian(a, h.islittle)
    [] o.k = "char" -> SubSeq(a, 1, Min({Len(a), o.size})) \o Pad(o.size - Len(a))
    [] o.k = "string" -> packint(Len(a), h.islittle, o.size, FALSE) \o a
    [] o.k = "zstr" -> Append(a, 0)
    [] o.k = "padding" -> <<0>>
    [] OTHER -> <<>>

Takes(o) == o.k \in {"int", "uint", "float", "char", "string", "zstr"}

\* str_pack, over the options in turn.
str_pack(fmt, args) ==
  FoldLeft(LAMBDA s, o :
             LET h == getoption(s.h, o)
                 a == IF Takes(o) THEN Head(s.args) ELSE 0
             IN IF s.err \/ BadAlign(h, o) \/ (Takes(o) /\ Refused(o, a)) THEN [s EXCEPT !.err = TRUE]
                ELSE [s EXCEPT !.h = h,
                               !.out = @ \o Pad(ntoalign(h, o, Len(@))) \o Bytes(h, o, a),
                               !.args = IF Takes(o) THEN Tail(@) ELSE @],
           [h |-> initheader, out |-> <<>>, args |-> args, err |-> FALSE], fmt)

str_packsize(fmt) ==
  FoldLeft(LAMBDA s, o :
             LET h == getoption(s.h, o)
             IN IF s.err \/ BadAlign(h, o) \/ o.k \in {"string", "zstr"} THEN [s EXCEPT !.err = TRUE]
                ELSE [s EXCEPT !.h = h, !.total = @ + ntoalign(h, o, @) + o.size],
           [h |-> initheader, total |-> 0, err |-> FALSE], fmt)

\* Mutant: a shorter integer does not get its sign back.
SignExtendNot(res, size) == res

\* (res ^ mask) - mask, for an integer that is shorter than a Lua integer.
SignExtend(res, size) ==
  LET mask == 2 ^ (size * NB - 1)
  IN ToUnsigned((IF res >= mask THEN res - mask ELSE res + mask) - mask)

unpackint(str, islittle, issigned) ==
  LET size == Len(str)
      b == InOrder(str, islittle)
      res == FoldRight(LAMBDA x, acc : acc * 2 ^ NB + x, SubSeq(b, 1, Min({size, SZINT})), 0)
      mask == IF ~issigned \/ ToSigned(res) >= 0 THEN 0 ELSE MC
  IN [v |-> ToSigned(IF size < SZINT /\ issigned THEN SignExtend(res, size) ELSE res),
      err |-> \E i \in SZINT + 1 .. size : b[i] # mask]

\* str_unpack from the first byte: results, or an error, and the next position.
str_unpack(fmt, data) ==
  FoldLeft(LAMBDA s, o :
             LET h == getoption(s.h, o)
                 pos == s.pos + ntoalign(h, o, s.pos)
                 here == SubSeq(data, pos + 1, pos + o.size)
                 n == unpackint(here, h.islittle, o.k = "int")
                 zero == Min({i \in pos + 1 .. Len(data) : data[i] = 0} \cup {Len(data) + 1})
                 len == CASE o.k = "string" -> n.v
                          [] o.k = "zstr" -> zero - pos
                          [] OTHER -> 0
                 value == CASE o.k \in {"int", "uint"} -> n.v
                            [] o.k = "float" -> copywithendian(here, h.islittle)
                            [] o.k = "char" -> here
                            [] o.k = "string" -> SubSeq(data, pos + o.size + 1, pos + o.size + len)
                            [] o.k = "zstr" -> SubSeq(data, pos + 1, zero - 1)
                            [] OTHER -> 0
             IN IF s.err \/ BadAlign(h, o) \/ pos + o.size > Len(data) THEN [s EXCEPT !.err = TRUE]
                ELSE IF o.k \in {"int", "uint", "string"} /\ n.err THEN [s EXCEPT !.err = TRUE]
                ELSE IF o.k = "string" /\ pos + o.size + len > Len(data) THEN [s EXCEPT !.err = TRUE]
                ELSE [s EXCEPT !.h = h, !.pos = pos + o.size + len,
                               !.out = IF Takes(o) THEN Append(@, value) ELSE @],
           [h |-> initheader, pos |-> 0, out |-> <<>>, err |-> FALSE], fmt)

-----------------------------------------------------------------------------
\* The values that come back: a fixed-length string is cut or padded.
Expected(fmt, args) ==
  LET takers == SelectSeq(fmt, Takes)
  IN [i \in DOMAIN takers |->
        IF takers[i].k = "char" THEN SubSeq(args[i] \o Pad(takers[i].size), 1, takers[i].size) ELSE args[i]]

PackUnpack(fmt, args) ==
  LET p == str_pack(fmt, args) IN [packed |-> p, unpacked |-> str_unpack(fmt, p.out), size |-> str_packsize(fmt)]

RoundTrip(fmt, args, res) ==
  ~res.packed.err => /\ ~res.unpacked.err /\ res.unpacked.out = Expected(fmt, args)
                     /\ res.unpacked.pos = Len(res.packed.out)
                     /\ ~res.size.err => res.size.total = Len(res.packed.out)
=============================================================================
