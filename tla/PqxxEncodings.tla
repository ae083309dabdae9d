---------------------------- MODULE PqxxEncodings ----------------------------
(***************************************************************************)
(* The client encodings of libpqxx: where the glyph at the start of a text *)
(* ends.  A text is a sequence of bytes.  A width of 0 stands for the      *)
(* exception of throw_for_encoding_error.                                  *)
(***************************************************************************)
EXTENDS Integers, Sequences

Encodings ==
    {"MONOBYTE", "BIG5", "EUC_CN", "EUC_JP", "EUC_JIS_2004", "EUC_KR", "EUC_TW", "GB18030",
     "GBK", "JOHAB", "MULE_INTERNAL", "SJIS", "SHIFT_JIS_2004", "UHC", "UTF8"}

BetweenInc(value, bottom, top) == bottom <= value /\ value <= top
WidthIf(condition, width) == IF condition THEN width ELSE 0
Has(text, n) == Len(text) >= n
Trail(b) == BetweenInc(b, 161, 254)

\* The scanners, for a text whose first byte is at least 128.
EucJpLike(t) ==
    CASE ~Has(t, 2) -> 0
      [] Has(t, 2) /\ (t[1] = 142 \/ Trail(t[1])) -> WidthIf(Trail(t[2]), 2)
      [] t[1] = 143 /\ Has(t, 3) -> WidthIf(Trail(t[2]) /\ Trail(t[3]), 3)
      [] OTHER -> 0
SjisLike(t) ==
    IF BetweenInc(t[1], 161, 223) THEN 1
    ELSE WidthIf(/\ BetweenInc(t[1], 129, 159) \/ BetweenInc(t[1], 224, 252)
                 /\ Has(t, 2)
                 /\ t[2] # 127
                 /\ BetweenInc(t[2], 64, 158) \/ BetweenInc(t[2], 159, 252), 2)
Big5(t) ==
    WidthIf(/\ BetweenInc(t[1], 129, 254) /\ Has(t, 2)
            /\ BetweenInc(t[2], 64, 126) \/ Trail(t[2]), 2)
EucCn(t) == WidthIf(BetweenInc(t[1], 161, 247) /\ Has(t, 2) /\ Trail(t[2]), 2)
EucKr(t) == WidthIf(Trail(t[1]) /\ Has(t, 2) /\ Trail(t[2]), 2)
EucTw(t) ==
    CASE ~Has(t, 2) -> 0
      [] Has(t, 2) /\ Trail(t[1]) -> WidthIf(Trail(t[2]), 2)
      [] OTHER -> WidthIf(/\ t[1] = 142 /\ Has(t, 4)
                          /\ BetweenInc(t[2], 161, 176) /\ Trail(t[3]) /\ Trail(t[4]), 4)
Gb18030(t) ==
    CASE t[1] = 128 \/ ~Has(t, 2) -> 0
      [] Has(t, 2) /\ BetweenInc(t[2], 64, 254) -> WidthIf(t[2] # 127, 2)
      [] OTHER -> WidthIf(/\ Has(t, 4)
                          /\ BetweenInc(t[2], 48, 57)
                          /\ BetweenInc(t[3], 129, 254) /\ BetweenInc(t[4], 48, 57), 4)
Gbk(t) ==
    LET Low(b) == BetweenInc(b, 64, 160) /\ b # 127
        High(b) == Trail(b)
    IN  WidthIf(/\ Has(t, 2)
                /\ \/ BetweenInc(t[1], 129, 160) /\ (BetweenInc(t[2], 64, 254) /\ t[2] # 127)
                   \/ BetweenInc(t[1], 170, 254) /\ Low(t[2])
                   \/ BetweenInc(t[1], 161, 167) /\ Low(t[2])
                   \/ BetweenInc(t[1], 168, 169) /\ Low(t[2])
                   \/ BetweenInc(t[1], 161, 169) /\ High(t[2])
                   \/ BetweenInc(t[1], 170, 175) /\ High(t[2])
                   \/ BetweenInc(t[1], 176, 247) /\ High(t[2])
                   \/ BetweenInc(t[1], 248, 254) /\ High(t[2]), 2)
\* The code takes the first byte of the glyph for its second one, too.
Johab(t) ==
    LET second == t[1]
    IN  WidthIf(/\ Has(t, 2)
                /\ \/ /\ BetweenInc(t[1], 132, 211)
                      /\ BetweenInc(second, 65, 126) \/ BetweenInc(second, 129, 254)
                   \/ /\ BetweenInc(t[1], 216, 222) \/ BetweenInc(t[1], 224, 249)
                      /\ BetweenInc(second, 49, 126) \/ BetweenInc(second, 145, 254), 2)
\* The code looks at the byte after a glyph of four, and that is the terminating
\* zero where the glyph is the last one.
Mule(t) ==
    LET After(n) == IF Has(t, n) THEN t[n] ELSE 0
    IN  CASE ~Has(t, 2) -> 0
          [] Has(t, 2) /\ BetweenInc(t[1], 129, 141) /\ t[2] >= 160 -> 2
          [] /\ Has(t, 3)
             /\ \/ t[1] = 154 /\ BetweenInc(t[2], 160, 223)
                \/ t[1] = 155 /\ BetweenInc(t[2], 224, 239)
                \/ BetweenInc(t[1], 144, 153) /\ t[2] >= 160 -> 3
          [] OTHER -> WidthIf(/\ Has(t, 4)
                              /\ \/ t[1] = 156 /\ BetweenInc(t[2], 240, 244)
                                 \/ t[1] = 157 /\ BetweenInc(t[2], 245, 254)
                              /\ t[3] >= 160 /\ After(5) >= 160, 4)
Uhc(t) ==
    CASE ~Has(t, 2) -> 0
      [] Has(t, 2) /\ BetweenInc(t[1], 128, 198) ->
            WidthIf(\/ BetweenInc(t[2], 65, 90) \/ BetweenInc(t[2], 97, 122)
                    \/ BetweenInc(t[2], 128, 254), 2)
      [] OTHER -> WidthIf(Trail(t[1]) /\ Trail(t[2]), 2)
Utf8(t) ==
    LET Follow(n) == \A i \in 2 .. n : BetweenInc(t[i], 128, 191)
    IN  CASE BetweenInc(t[1], 192, 223) -> WidthIf(Has(t, 2) /\ Follow(2), 2)
          [] BetweenInc(t[1], 224, 239) -> WidthIf(Has(t, 3) /\ Follow(3), 3)
          [] BetweenInc(t[1], 240, 247) -> WidthIf(Has(t, 4) /\ Follow(4), 4)
          [] OTHER -> 0

\* The width of the first glyph of a text that is not empty.
GlyphWidth(enc, t) ==
    CASE enc = "MONOBYTE" \/ t[1] < 128 -> 1
      [] OTHER ->
         CASE enc = "BIG5" -> Big5(t)
           [] enc = "EUC_CN" -> EucCn(t)
           [] enc \in {"EUC_JP", "EUC_JIS_2004"} -> EucJpLike(t)
           [] enc = "EUC_KR" -> EucKr(t)
           [] enc = "EUC_TW" -> EucTw(t)
           [] enc = "GB18030" -> Gb18030(t)
           [] enc = "GBK" -> Gbk(t)
           [] enc = "JOHAB" -> Johab(t)
           [] enc = "MULE_INTERNAL" -> Mule(t)
           [] enc \in {"SJIS", "SHIFT_JIS_2004"} -> SjisLike(t)
           [] enc = "UHC" -> Uhc(t)
           [] enc = "UTF8" -> Utf8(t)

\* A text taken apart into glyphs, as every loop over a text does; the last
\* glyph is empty where the scanner throws.
RECURSIVE Glyphs(_, _)
Glyphs(enc, t) ==
    IF t = <<>> THEN <<>>
    ELSE LET width == GlyphWidth(enc, t)
         IN  IF width = 0 THEN << <<>> >>
             ELSE <<SubSeq(t, 1, width)>> \o Glyphs(enc, SubSeq(t, width + 1, Len(t)))
IsText(enc, t) == \A i \in DOMAIN Glyphs(enc, t) : Glyphs(enc, t)[i] # <<>>

\* The position of the first single-byte glyph at or after i that is a needle,
\* or the end.
FindChar(needles, glyphs, i) ==
    LET hits == {j \in i .. Len(glyphs) : \E c \in needles : glyphs[j] = <<c>>}
    IN  IF hits = {} THEN Len(glyphs) + 1 ELSE CHOOSE j \in hits : \A k \in hits : j <= k

=============================================================================
