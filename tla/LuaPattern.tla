----------------------------- MODULE LuaPattern -----------------------------
(***************************************************************************)
(* Pattern matching of string.find, match, gmatch and gsub (lstrlib.c).    *)
(*                                                                         *)
(* A pattern is a sequence of items as 'match' tells them apart; a single  *)
(* character class is a set of ranges, maybe complemented.  Positions      *)
(* count from one, and 0 is the NULL that says "no match".  The match      *)
(* state is threaded through the calls, as the code changes it and undoes  *)
(* the changes when a match fails.                                         *)
(***************************************************************************)
EXTENDS Integers, Sequences, SequencesExt, FiniteSetsExt, LuaSteps

CONSTANTS
  MaxCCalls,     \* limits of the code: recursion of match, ...
  MaxRep,        \* ... characters it takes, and
  MaxCaptures,   \* ... captures
  CloseParen     \* the character ')'

ASSUME PatternAssumption == MaxCCalls \in Nat /\ MaxRep \in Nat /\ MaxCaptures \in Nat /\ CloseParen \in Nat

Unfinished == -1
Position == -2

\* Items.
Class(neg, ranges) == [neg |-> neg, ranges |-> ranges]
Single(c, suffix) == [k |-> "single", class |-> c, suffix |-> suffix]
Item(k) == [k |-> k]
Balance(b, e) == [k |-> "balance", b |-> b, e |-> e]
Frontier(c) == [k |-> "frontier", class |-> c]
Back(l) == [k |-> "back", l |-> l]

\* A position after the end of the subject holds a zero.
Char(src, s) == IF s \in DOMAIN src THEN src[s] ELSE 0

matchbracketclass(c, class) == (\E r \in class.ranges : r[1] <= c /\ c <= r[2]) # class.neg
singlematch(src, s, item) == s <= Len(src) /\ matchbracketclass(src[s], item.class)

prepstate ==
  [matchdepth |-> MaxCCalls, nrep |-> MaxRep, level |-> 0,
   capture |-> [i \in 1 .. MaxCaptures |-> [init |-> 0, len |-> Unfinished]]]
reprepstate(ms) == [ms EXCEPT !.level = 0]

Result(ms, s) == [s |-> s, ms |-> ms, err |-> FALSE]
Fails(ms) == Result(ms, 0)
Error(ms) == [s |-> 0, ms |-> ms, err |-> TRUE]

\* The position after a balanced string, 0 if there is none.
matchbalance(src, s, b, e) ==
  LET Depth(k) == Cardinality({j \in s .. k : src[j] = b /\ (j = s \/ b # e)})
                  - Cardinality({j \in s + 1 .. k : src[j] = e})
      ends == {k \in s + 1 .. Len(src) : Depth(k) = 0}
  IN IF Char(src, s) # b \/ ends = {} THEN 0 ELSE Min(ends) + 1

\* The innermost capture that is open, 0 if there is none.
capture_to_close(ms) ==
  SelectLastInSeq(SubSeq(ms.capture, 1, ms.level), LAMBDA c : c.len = Unfinished)

\* The position after another copy of a capture.
BadCapture(ms, l) == l > ms.level \/ ms.capture[l].len = Unfinished
match_capture(src, ms, s, l) ==
  LET c == ms.capture[l]
      len == c.len
  IN IF len >= 0 /\ Len(src) + 1 - s >= len
        /\ SubSeq(src, c.init, c.init + len - 1) = SubSeq(src, s, s + len - 1)
     THEN s + len ELSE 0

\* Mutant: a capture stays closed when what follows does not match.
ReopenNot(ms, l) == ms

\* end_capture undoes the capture when the match fails.
Reopen(ms, l) == [ms EXCEPT !.capture[l].len = Unfinished]

RECURSIVE match(_, _, _, _), do_match(_, _, _, _), Expand(_, _, _, _, _), min_expand(_, _, _, _)

start_capture(x, ms, s, p, what) ==
  IF ms.level >= MaxCaptures THEN Error(ms)
  ELSE LET r == match(x, [ms EXCEPT !.capture[ms.level + 1] = [init |-> s, len |-> what], !.level = @ + 1], s, p)
       IN IF r.err \/ r.s # 0 THEN r ELSE Fails([r.ms EXCEPT !.level = @ - 1])

end_capture(x, ms, s, p) ==
  Then(capture_to_close(ms), LAMBDA l :
  Then(match(x, [ms EXCEPT !.capture[l].len = s - ms.capture[l].init], s, p), LAMBDA r :
    IF l = 0 THEN Error(ms) ELSE IF r.err \/ r.s # 0 THEN r ELSE Fails(Reopen(r.ms, l))))

\* max_expand: the longest repetition first.
Repeats(src, s, item) == CHOOSE n \in 0 .. Len(src) + 1 : /\ \A j \in 0 .. n - 1 : singlematch(src, s + j, item)
                                                      /\ ~singlematch(src, s + n, item)
max_expand(x, ms, s, p) == Expand(x, ms, s, Repeats(x.src, s, x.pat[p]), p)

Expand(x, ms, s, i, p) ==
  Then(match(x, ms, s + i, p + 1), LAMBDA r :
    IF r.err \/ r.s # 0 THEN r ELSE IF i = 0 THEN Fails(r.ms) ELSE Expand(x, r.ms, s, i - 1, p))

min_expand(x, ms, s, p) ==
  Then(match(x, ms, s, p + 1), LAMBDA r :
    IF r.err \/ r.s # 0 THEN r
    ELSE IF singlematch(x.src, s, x.pat[p]) THEN min_expand(x, r.ms, s + 1, p)
    ELSE Fails(r.ms))

\* The default of match: a single character class with an optional suffix.
match_single(x, ms, s, p) ==
  LET item == x.pat[p]
      m == [ms EXCEPT !.nrep = @ - 1]
  IN IF ~singlematch(x.src, s, item)
     THEN IF item.suffix \in {"*", "?", "-"} THEN do_match(x, ms, s, p + 1) ELSE Fails(ms)
     ELSE IF ms.nrep = 0 THEN Error(ms)
     ELSE CASE item.suffix = "?" -> LET r == match(x, m, s + 1, p + 1)
                                    IN IF r.err \/ r.s # 0 THEN r ELSE do_match(x, r.ms, s, p + 1)
            [] item.suffix = "+" -> max_expand(x, m, s + 1, p)
            [] item.suffix = "*" -> max_expand(x, m, s, p)
            [] item.suffix = "-" -> min_expand(x, m, s, p)
            [] OTHER -> do_match(x, m, s + 1, p + 1)

\* The body of match, from its label 'init'.
do_match(x, ms, s, p) ==
  IF p > Len(x.pat) THEN Result(ms, s)
  ELSE LET item == x.pat[p]
           GoOn(e) == IF e = 0 THEN Fails(ms) ELSE do_match(x, ms, e, p + 1)
       IN CASE item.k = "open" -> start_capture(x, ms, s, p + 1, Unfinished)
            [] item.k = "position" -> start_capture(x, ms, s, p + 1, Position)
            [] item.k = "close" -> end_capture(x, ms, s, p + 1)
            [] item.k = "end" -> IF s = Len(x.src) + 1 THEN Result(ms, s) ELSE Fails(ms)
            [] item.k = "balance" -> GoOn(matchbalance(x.src, s, item.b, item.e))
            [] item.k = "frontier" -> GoOn(IF ~matchbracketclass(Char(x.src, s - 1), item.class)
                                              /\ matchbracketclass(Char(x.src, s), item.class) THEN s ELSE 0)
            [] item.k = "back" -> IF BadCapture(ms, item.l) THEN Error(ms)
                                  ELSE GoOn(match_capture(x.src, ms, s, item.l))
            [] item.k = "single" -> match_single(x, ms, s, p)

match(x, ms, s, p) ==
  IF ms.matchdepth = 0 THEN Error(ms)
  ELSE LET r == do_match(x, [ms EXCEPT !.matchdepth = @ - 1], s, p)
       IN IF r.err THEN r ELSE [r EXCEPT !.ms.matchdepth = @ + 1]

-----------------------------------------------------------------------------
(* The library functions. *)

\* lmemfind, for a search without special characters.
lmemfind(src, from, what) ==
  LET at == {i \in from .. Len(src) + 1 - Len(what) : SubSeq(src, i, i + Len(what) - 1) = what}
  IN IF at = {} THEN 0 ELSE Min(at)

\* push_captures: a match with a capture that is still open is an error.
push_captures(r) ==
  IF \E i \in 1 .. r.ms.level : r.ms.capture[i].len = Unfinished THEN Error(r.ms) ELSE r

\* str_find_aux: the first position from init on where the pattern matches.
RECURSIVE FindFrom(_, _, _, _)
FindFrom(x, ms, s, anchor) ==
  Then(match(x, reprepstate(ms), s, 1), LAMBDA r :
    IF r.err THEN [start |-> s, r |-> r]
    ELSE IF r.s # 0 THEN [start |-> s, r |-> push_captures(r)]
    ELSE IF s <= Len(x.src) /\ ~anchor THEN FindFrom(x, r.ms, s + 1, anchor)
    ELSE [start |-> 0, r |-> r])

\* nospecials: none of SPECIALS, so that find searches for the text as it is.  There
\* is no ')' in SPECIALS.
IsPlain(item) == item.k = "single" /\ item.suffix = "" /\ ~item.class.neg
                 /\ Cardinality(item.class.ranges) = 1 /\ \A r \in item.class.ranges : r[1] = r[2]
nospecials(pat) == \A i \in DOMAIN pat : IsPlain(pat[i]) \/ pat[i].k = "close"
Text(pat) == [i \in DOMAIN pat |-> IF pat[i].k = "close" THEN CloseParen
                                  ELSE (CHOOSE r \in pat[i].class.ranges : TRUE)[1]]

str_find_aux(x, init, anchor, find) ==
  LET from == IF init < 1 THEN 1 ELSE init IN
  Then(lmemfind(x.src, from, Text(x.pat)), LAMBDA at :
    IF from > Len(x.src) + 1 THEN [start |-> 0, r |-> Fails(prepstate)]
    ELSE IF find /\ ~anchor /\ nospecials(x.pat)
         THEN [start |-> at, r |-> Result(prepstate, IF at = 0 THEN 0 ELSE at + Len(x.pat))]
    ELSE FindFrom(x, prepstate, from, anchor))

\* gmatch_aux, called until it finds nothing: the matches as pairs of positions.
RECURSIVE gmatch_aux(_, _, _)
gmatch_aux(x, ms, src) ==
  IF src > Len(x.src) + 1 THEN <<>>
  ELSE LET f == FindFrom(x, ms, src, FALSE)
       IN IF f.start = 0 \/ f.r.err THEN <<>>
          ELSE <<<<f.start, f.r.s>>>> \o gmatch_aux(x, f.r.ms, IF f.r.s = f.start THEN f.start + 1 ELSE f.r.s)
gmatch(x) == gmatch_aux(x, prepstate, 1)

\* add_s: the replacement, with Whole for %0 and One for %1.
Whole == 0
One == -1
add_s(x, ms, s, e, news) ==
  LET c == ms.capture[1]
      all == SubSeq(x.src, s, e - 1) IN
  Then(IF ms.level = 0 THEN all
       ELSE IF c.len = Position THEN <<c.init>> ELSE SubSeq(x.src, c.init, c.init + c.len - 1), LAMBDA first :
    FlattenSeq([i \in DOMAIN news |-> IF news[i] = Whole THEN all ELSE IF news[i] = One THEN first ELSE <<news[i]>>]))

\* str_gsub: what it adds to the buffer from src on, and the number of replacements.
RECURSIVE GsubFrom(_, _, _, _, _, _, _)
GsubFrom(x, ms, src, n, news, max_s, anchor) ==
  Then(match(x, reprepstate(ms), src, 1), LAMBDA r :
  LET e == r.s IN
  Then(IF e = 0 THEN <<>> ELSE add_s(x, r.ms, src, e, news), LAMBDA new :
  LET m == IF e = 0 THEN n ELSE n + 1
      Goes(b, at) ==
         LET t == IF anchor THEN [b |-> SubSeq(x.src, at, Len(x.src)), n |-> m]
                  ELSE GsubFrom(x, r.ms, at, m, news, max_s, anchor)
         IN [t EXCEPT !.b = b \o @] IN
    IF n >= max_s THEN [b |-> SubSeq(x.src, src, Len(x.src)), n |-> n]
    ELSE IF e > src THEN Goes(new, e)
    ELSE IF src <= Len(x.src) THEN Goes(Append(new, x.src[src]), src + 1)
    ELSE [b |-> new, n |-> m]))
str_gsub(x, news, max_s, anchor) == GsubFrom(x, prepstate, 1, 0, news, max_s, anchor)

-----------------------------------------------------------------------------
(* What a pattern means: all its matches from a position, the preferred    *)
(* ones first, with their captures.                                        *)

RECURSIVE Matches(_, _, _, _)
Matches(x, s, p, caps) ==
  IF p > Len(x.pat) THEN <<[s |-> s, caps |-> caps]>>
  ELSE
    LET item == x.pat[p]
        open == SelectLastInSeq(caps, LAMBDA c : c.len = Unfinished)
        Next == Matches(x, s, p + 1, caps)
        More == Matches(x, s + 1, p, caps)
        After == Matches(x, s + 1, p + 1, caps)
        takes == singlematch(x.src, s, item)
        From(e) == IF e = 0 THEN <<>> ELSE Matches(x, e, p + 1, caps)
    IN CASE item.k = "open" -> Matches(x, s, p + 1, Append(caps, [init |-> s, len |-> Unfinished]))
         [] item.k = "position" -> Matches(x, s, p + 1, Append(caps, [init |-> s, len |-> Position]))
         [] item.k = "close" -> IF open = 0 THEN <<>>
                                ELSE Matches(x, s, p + 1, [caps EXCEPT ![open].len = s - caps[open].init])
         [] item.k = "end" -> IF s = Len(x.src) + 1 THEN Next ELSE <<>>
         [] item.k = "balance" -> From(matchbalance(x.src, s, item.b, item.e))
         [] item.k = "frontier" -> IF ~matchbracketclass(Char(x.src, s - 1), item.class)
                                      /\ matchbracketclass(Char(x.src, s), item.class) THEN Next ELSE <<>>
         [] item.k = "back" -> IF item.l > Len(caps) \/ caps[item.l].len < 0 THEN <<>>
                               ELSE LET c == caps[item.l]
                                    IN IF SubSeq(x.src, s, Min({s + c.len - 1, Len(x.src)}))
                                          = SubSeq(x.src, c.init, c.init + c.len - 1)
                                       THEN Matches(x, s + c.len, p + 1, caps) ELSE <<>>
         [] item.suffix = "" -> IF takes THEN After ELSE <<>>
         [] item.suffix = "?" -> IF takes THEN After \o Next ELSE Next
         [] item.suffix = "*" -> IF takes THEN More \o Next ELSE Next
         [] item.suffix = "-" -> IF takes THEN Next \o More ELSE Next
         [] item.suffix = "+" -> IF takes THEN Matches([x EXCEPT !.pat[p].suffix = "*"], s + 1, p, caps) ELSE <<>>

\* A pattern that can raise no error but by a limit: captures that all close,
\* and references to closed ones only.
WellFormed(pat) ==
  LET Opens(n) == {i \in 1 .. n : pat[i].k = "open"}
      Closes(n) == {i \in 1 .. n : pat[i].k = "close"}
      Depth(n) == Cardinality(Opens(n)) - Cardinality(Closes(n))
  IN /\ \A n \in DOMAIN pat : Depth(n) >= 0 /\ (pat[n].k = "back" => Closes(n) # {} /\ Depth(n) = 0)
     /\ Depth(Len(pat)) = 0
     /\ Cardinality({i \in DOMAIN pat : pat[i].k \in {"open", "position"}}) <= MaxCaptures

\* The manual calls ')' magic, and has no pattern with one that closes nothing.
\* When it is the only magic character of a pattern, find looks for it in the subject.
ClosesNothing(pat) == nospecials(pat) /\ \E i \in DOMAIN pat : pat[i].k = "close"
Occurs(src, s, what) == \A i \in DOMAIN what : Char(src, s + i - 1) = what[i]
FindsText(x, init, f) ==
  /\ f.start # 0 => f.start >= init /\ Occurs(x.src, f.start, Text(x.pat)) /\ f.r.s = f.start + Len(x.pat)
  /\ \A s \in init .. Len(x.src) : Occurs(x.src, s, Text(x.pat)) => f.start \in init .. s
  /\ ~f.r.err /\ f.r.ms.level = 0

\* The first match at the first position that has one; an error only for a
\* pattern that is not well formed.
FindsMatch(x, init, anchor, f) ==
  LET last == IF anchor THEN init ELSE Len(x.src) + 1 IN
  Then({s \in init .. last : Matches(x, s, 1, <<>>) # <<>>}, LAMBDA starts :
  Then(Head(Matches(x, Min(starts), 1, <<>>)), LAMBDA first :
    IF f.r.err THEN ~WellFormed(x.pat)
    ELSE
      /\ f.r.ms.matchdepth = MaxCCalls
      /\ IF starts = {} THEN f.start = 0
         ELSE /\ f.start = Min(starts) /\ f.r.s = first.s
              /\ SubSeq(f.r.ms.capture, 1, f.r.ms.level) = first.caps))

FindsFirst(x, init, anchor, find, f) ==
  IF find /\ ~anchor /\ ClosesNothing(x.pat) THEN FindsText(x, init, f) ELSE FindsMatch(x, init, anchor, f)

\* The matches of gmatch and what gsub makes of the subject with %0; err: some
\* match of the pattern is an error.
Traversed(x) ==
  [err |-> \E s \in 1 .. Len(x.src) + 1 : LET r == match(x, prepstate, s, 1)
                                          IN r.err \/ (r.s # 0 /\ push_captures(r).err),
   matches |-> gmatch(x), sub |-> str_gsub(x, <<Whole>>, Len(x.src) + 1, FALSE)]

\* gsub with %0 rebuilds the subject, and gmatch goes forward over it.
Rebuilds(x, res) ==
  LET g == res.matches
  IN ~res.err => /\ res.sub.b = x.src
                 /\ \A i \in 1 .. Len(g) - 1 : g[i][2] <= g[i + 1][1] /\ g[i][1] < g[i + 1][1]
                 /\ Len(g) = res.sub.n
=============================================================================
