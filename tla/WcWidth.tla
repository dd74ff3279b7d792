------------------------------- MODULE WcWidth -------------------------------
(* libtianya/src/wcwidth.c: how many columns a character or a string takes.   *)
(* Characters are their codes.                                                *)
EXTENDS Integers, SequencesExt

first(table, mid) == table[mid + 1][1]   \* mid counts from 0
last(table, mid)  == table[mid + 1][2]

\* Faulty variant of bisearch: the search ends when one interval is left.
bisearch_short(ucs, table, max) ==
    LET look[lo \in 0..(max + 1), hi \in -1..max] ==
            LET mid == (lo + hi) \div 2 IN
            IF hi <= lo THEN FALSE
            ELSE IF ucs > last(table, mid) THEN look[mid + 1, hi]
            ELSE IF ucs < first(table, mid) THEN look[lo, mid - 1]
            ELSE TRUE
    IN ~(ucs < first(table, 0) \/ ucs > last(table, max)) /\ look[0, max]

\* while (max >= min): lo and hi are min and max.
bisearch(ucs, table, max) ==
    LET look[lo \in 0..(max + 1), hi \in -1..max] ==
            LET mid == (lo + hi) \div 2 IN
            IF hi < lo THEN FALSE
            ELSE IF ucs > last(table, mid) THEN look[mid + 1, hi]
            ELSE IF ucs < first(table, mid) THEN look[lo, mid - 1]
            ELSE TRUE
    IN ~(ucs < first(table, 0) \/ ucs > last(table, max)) /\ look[0, max]

\* Non-spacing characters.
combining == <<
    <<\h0300, \h036F>>, <<\h0483, \h0486>>, <<\h0488, \h0489>>, <<\h0591, \h05BD>>,
    <<\h05BF, \h05BF>>, <<\h05C1, \h05C2>>, <<\h05C4, \h05C5>>, <<\h05C7, \h05C7>>,
    <<\h0600, \h0603>>, <<\h0610, \h0615>>, <<\h064B, \h065E>>, <<\h0670, \h0670>>,
    <<\h06D6, \h06E4>>, <<\h06E7, \h06E8>>, <<\h06EA, \h06ED>>, <<\h070F, \h070F>>,
    <<\h0711, \h0711>>, <<\h0730, \h074A>>, <<\h07A6, \h07B0>>, <<\h07EB, \h07F3>>,
    <<\h0901, \h0902>>, <<\h093C, \h093C>>, <<\h0941, \h0948>>, <<\h094D, \h094D>>,
    <<\h0951, \h0954>>, <<\h0962, \h0963>>, <<\h0981, \h0981>>, <<\h09BC, \h09BC>>,
    <<\h09C1, \h09C4>>, <<\h09CD, \h09CD>>, <<\h09E2, \h09E3>>, <<\h0A01, \h0A02>>,
    <<\h0A3C, \h0A3C>>, <<\h0A41, \h0A42>>, <<\h0A47, \h0A48>>, <<\h0A4B, \h0A4D>>,
    <<\h0A70, \h0A71>>, <<\h0A81, \h0A82>>, <<\h0ABC, \h0ABC>>, <<\h0AC1, \h0AC5>>,
    <<\h0AC7, \h0AC8>>, <<\h0ACD, \h0ACD>>, <<\h0AE2, \h0AE3>>, <<\h0B01, \h0B01>>,
    <<\h0B3C, \h0B3C>>, <<\h0B3F, \h0B3F>>, <<\h0B41, \h0B43>>, <<\h0B4D, \h0B4D>>,
    <<\h0B56, \h0B56>>, <<\h0B82, \h0B82>>, <<\h0BC0, \h0BC0>>, <<\h0BCD, \h0BCD>>,
    <<\h0C3E, \h0C40>>, <<\h0C46, \h0C48>>, <<\h0C4A, \h0C4D>>, <<\h0C55, \h0C56>>,
    <<\h0CBC, \h0CBC>>, <<\h0CBF, \h0CBF>>, <<\h0CC6, \h0CC6>>, <<\h0CCC, \h0CCD>>,
    <<\h0CE2, \h0CE3>>, <<\h0D41, \h0D43>>, <<\h0D4D, \h0D4D>>, <<\h0DCA, \h0DCA>>,
    <<\h0DD2, \h0DD4>>, <<\h0DD6, \h0DD6>>, <<\h0E31, \h0E31>>, <<\h0E34, \h0E3A>>,
    <<\h0E47, \h0E4E>>, <<\h0EB1, \h0EB1>>, <<\h0EB4, \h0EB9>>, <<\h0EBB, \h0EBC>>,
    <<\h0EC8, \h0ECD>>, <<\h0F18, \h0F19>>, <<\h0F35, \h0F35>>, <<\h0F37, \h0F37>>,
    <<\h0F39, \h0F39>>, <<\h0F71, \h0F7E>>, <<\h0F80, \h0F84>>, <<\h0F86, \h0F87>>,
    <<\h0F90, \h0F97>>, <<\h0F99, \h0FBC>>, <<\h0FC6, \h0FC6>>, <<\h102D, \h1030>>,
    <<\h1032, \h1032>>, <<\h1036, \h1037>>, <<\h1039, \h1039>>, <<\h1058, \h1059>>,
    <<\h1160, \h11FF>>, <<\h135F, \h135F>>, <<\h1712, \h1714>>, <<\h1732, \h1734>>,
    <<\h1752, \h1753>>, <<\h1772, \h1773>>, <<\h17B4, \h17B5>>, <<\h17B7, \h17BD>>,
    <<\h17C6, \h17C6>>, <<\h17C9, \h17D3>>, <<\h17DD, \h17DD>>, <<\h180B, \h180D>>,
    <<\h18A9, \h18A9>>, <<\h1920, \h1922>>, <<\h1927, \h1928>>, <<\h1932, \h1932>>,
    <<\h1939, \h193B>>, <<\h1A17, \h1A18>>, <<\h1B00, \h1B03>>, <<\h1B34, \h1B34>>,
    <<\h1B36, \h1B3A>>, <<\h1B3C, \h1B3C>>, <<\h1B42, \h1B42>>, <<\h1B6B, \h1B73>>,
    <<\h1DC0, \h1DCA>>, <<\h1DFE, \h1DFF>>, <<\h200B, \h200F>>, <<\h202A, \h202E>>,
    <<\h2060, \h2063>>, <<\h206A, \h206F>>, <<\h20D0, \h20EF>>, <<\h302A, \h302F>>,
    <<\h3099, \h309A>>, <<\hA806, \hA806>>, <<\hA80B, \hA80B>>, <<\hA825, \hA826>>,
    <<\hFB1E, \hFB1E>>, <<\hFE00, \hFE0F>>, <<\hFE20, \hFE23>>, <<\hFEFF, \hFEFF>>,
    <<\hFFF9, \hFFFB>>, <<\h10A01, \h10A03>>, <<\h10A05, \h10A06>>, <<\h10A0C, \h10A0F>>,
    <<\h10A38, \h10A3A>>, <<\h10A3F, \h10A3F>>, <<\h1D167, \h1D169>>, <<\h1D173, \h1D182>>,
    <<\h1D185, \h1D18B>>, <<\h1D1AA, \h1D1AD>>, <<\h1D242, \h1D244>>, <<\hE0001, \hE0001>>,
    <<\hE0020, \hE007F>>, <<\hE0100, \hE01EF>>>>

\* The ranges of width two.
wide == <<<<\h1100, \h115F>>, <<\h2329, \h232A>>, <<\h2E80, \h303E>>, <<\h3040, \hA4CF>>,
          <<\hAC00, \hD7A3>>, <<\hF900, \hFAFF>>, <<\hFE10, \hFE19>>, <<\hFE30, \hFE6F>>,
          <<\hFF00, \hFF60>>, <<\hFFE0, \hFFE6>>, <<\h20000, \h2FFFD>>,
          <<\h30000, \h3FFFD>>>>

Among(ucs, table) == \E k \in 1..Len(table) : ucs \in table[k][1]..table[k][2]

mk_wcwidth(ucs) ==
    IF ucs = 0 THEN 0
    ELSE IF ucs < 32 \/ (ucs >= 127 /\ ucs < 160) THEN -1
    ELSE IF bisearch(ucs, combining, Len(combining) - 1) THEN 0
    ELSE IF Among(ucs, wide) THEN 2
    ELSE 1

\* East Asian ambiguous characters.
ambiguous == <<
    <<\h00A1, \h00A1>>, <<\h00A4, \h00A4>>, <<\h00A7, \h00A8>>, <<\h00AA, \h00AA>>,
    <<\h00AE, \h00AE>>, <<\h00B0, \h00B4>>, <<\h00B6, \h00BA>>, <<\h00BC, \h00BF>>,
    <<\h00C6, \h00C6>>, <<\h00D0, \h00D0>>, <<\h00D7, \h00D8>>, <<\h00DE, \h00E1>>,
    <<\h00E6, \h00E6>>, <<\h00E8, \h00EA>>, <<\h00EC, \h00ED>>, <<\h00F0, \h00F0>>,
    <<\h00F2, \h00F3>>, <<\h00F7, \h00FA>>, <<\h00FC, \h00FC>>, <<\h00FE, \h00FE>>,
    <<\h0101, \h0101>>, <<\h0111, \h0111>>, <<\h0113, \h0113>>, <<\h011B, \h011B>>,
    <<\h0126, \h0127>>, <<\h012B, \h012B>>, <<\h0131, \h0133>>, <<\h0138, \h0138>>,
    <<\h013F, \h0142>>, <<\h0144, \h0144>>, <<\h0148, \h014B>>, <<\h014D, \h014D>>,
    <<\h0152, \h0153>>, <<\h0166, \h0167>>, <<\h016B, \h016B>>, <<\h01CE, \h01CE>>,
    <<\h01D0, \h01D0>>, <<\h01D2, \h01D2>>, <<\h01D4, \h01D4>>, <<\h01D6, \h01D6>>,
    <<\h01D8, \h01D8>>, <<\h01DA, \h01DA>>, <<\h01DC, \h01DC>>, <<\h0251, \h0251>>,
    <<\h0261, \h0261>>, <<\h02C4, \h02C4>>, <<\h02C7, \h02C7>>, <<\h02C9, \h02CB>>,
    <<\h02CD, \h02CD>>, <<\h02D0, \h02D0>>, <<\h02D8, \h02DB>>, <<\h02DD, \h02DD>>,
    <<\h02DF, \h02DF>>, <<\h0391, \h03A1>>, <<\h03A3, \h03A9>>, <<\h03B1, \h03C1>>,
    <<\h03C3, \h03C9>>, <<\h0401, \h0401>>, <<\h0410, \h044F>>, <<\h0451, \h0451>>,
    <<\h2010, \h2010>>, <<\h2013, \h2016>>, <<\h2018, \h2019>>, <<\h201C, \h201D>>,
    <<\h2020, \h2022>>, <<\h2024, \h2027>>, <<\h2030, \h2030>>, <<\h2032, \h2033>>,
    <<\h2035, \h2035>>, <<\h203B, \h203B>>, <<\h203E, \h203E>>, <<\h2074, \h2074>>,
    <<\h207F, \h207F>>, <<\h2081, \h2084>>, <<\h20AC, \h20AC>>, <<\h2103, \h2103>>,
    <<\h2105, \h2105>>, <<\h2109, \h2109>>, <<\h2113, \h2113>>, <<\h2116, \h2116>>,
    <<\h2121, \h2122>>, <<\h2126, \h2126>>, <<\h212B, \h212B>>, <<\h2153, \h2154>>,
    <<\h215B, \h215E>>, <<\h2160, \h216B>>, <<\h2170, \h2179>>, <<\h2190, \h2199>>,
    <<\h21B8, \h21B9>>, <<\h21D2, \h21D2>>, <<\h21D4, \h21D4>>, <<\h21E7, \h21E7>>,
    <<\h2200, \h2200>>, <<\h2202, \h2203>>, <<\h2207, \h2208>>, <<\h220B, \h220B>>,
    <<\h220F, \h220F>>, <<\h2211, \h2211>>, <<\h2215, \h2215>>, <<\h221A, \h221A>>,
    <<\h221D, \h2220>>, <<\h2223, \h2223>>, <<\h2225, \h2225>>, <<\h2227, \h222C>>,
    <<\h222E, \h222E>>, <<\h2234, \h2237>>, <<\h223C, \h223D>>, <<\h2248, \h2248>>,
    <<\h224C, \h224C>>, <<\h2252, \h2252>>, <<\h2260, \h2261>>, <<\h2264, \h2267>>,
    <<\h226A, \h226B>>, <<\h226E, \h226F>>, <<\h2282, \h2283>>, <<\h2286, \h2287>>,
    <<\h2295, \h2295>>, <<\h2299, \h2299>>, <<\h22A5, \h22A5>>, <<\h22BF, \h22BF>>,
    <<\h2312, \h2312>>, <<\h2460, \h24E9>>, <<\h24EB, \h254B>>, <<\h2550, \h2573>>,
    <<\h2580, \h258F>>, <<\h2592, \h2595>>, <<\h25A0, \h25A1>>, <<\h25A3, \h25A9>>,
    <<\h25B2, \h25B3>>, <<\h25B6, \h25B7>>, <<\h25BC, \h25BD>>, <<\h25C0, \h25C1>>,
    <<\h25C6, \h25C8>>, <<\h25CB, \h25CB>>, <<\h25CE, \h25D1>>, <<\h25E2, \h25E5>>,
    <<\h25EF, \h25EF>>, <<\h2605, \h2606>>, <<\h2609, \h2609>>, <<\h260E, \h260F>>,
    <<\h2614, \h2615>>, <<\h261C, \h261C>>, <<\h261E, \h261E>>, <<\h2640, \h2640>>,
    <<\h2642, \h2642>>, <<\h2660, \h2661>>, <<\h2663, \h2665>>, <<\h2667, \h266A>>,
    <<\h266C, \h266D>>, <<\h266F, \h266F>>, <<\h273D, \h273D>>, <<\h2776, \h277F>>,
    <<\hE000, \hF8FF>>, <<\hFFFD, \hFFFD>>, <<\hF0000, \hFFFFD>>, <<\h100000, \h10FFFD>>>>

mk_wcwidth_cjk(ucs) ==
    IF bisearch(ucs, ambiguous, Len(ambiguous) - 1) THEN 2 ELSE mk_wcwidth(ucs)

\* mk_wcswidth and mk_wcswidth_cjk: up to n characters, or up to the NUL that
\* ends the string; -1 at the first that cannot be printed.
swidth(pwcs, n, Width(_)) ==
    LET left == IF n < Len(pwcs) THEN n ELSE Len(pwcs)
        nul == {k \in 1..left : pwcs[k] = 0}
        stop == IF nul = {} THEN left ELSE (CHOOSE k \in nul : \A j \in nul : k <= j) - 1
    IN FoldLeft(LAMBDA width, ucs : IF width < 0 \/ Width(ucs) < 0 THEN -1
                                    ELSE width + Width(ucs),
                0, SubSeq(pwcs, 1, stop))

mk_wcswidth(pwcs, n) == swidth(pwcs, n, mk_wcwidth)
mk_wcswidth_cjk(pwcs, n) == swidth(pwcs, n, mk_wcwidth_cjk)
-----------------------------------------------------------------------------
(* Properties *)

\* The codes at the ends of the intervals of a table, and those beside them.
Ends(table) == UNION {{table[k][1] - 1, table[k][1], table[k][2], table[k][2] + 1} :
                      k \in 1..Len(table)}

\* The comments on the tables: they are sorted and do not overlap, so the
\* search finds exactly what is in them, at every end of an interval too.
TablesAreSearched ==
    \A table \in {combining, ambiguous} : \A ucs \in Ends(table) :
        bisearch(ucs, table, Len(table) - 1) = Among(ucs, table)

\* By both functions a string is as wide as those of its first n characters
\* together that are before the end of the string; with one among them that
\* cannot be printed it has no width.
WidthsAdd(pwcs, n) ==
    LET seen == {k \in 1..Len(pwcs) : k <= n /\ \A j \in 1..k : pwcs[j] # 0}
        Sum(Width(_)) == IF \E k \in seen : Width(pwcs[k]) = -1 THEN -1
                         ELSE MapThenSumSet(LAMBDA k : Width(pwcs[k]), seen)
    IN /\ mk_wcswidth(pwcs, n) = Sum(mk_wcwidth)
       /\ mk_wcswidth_cjk(pwcs, n) = Sum(mk_wcwidth_cjk)

\* The comment before mk_wcwidth: the end of the string and characters that
\* combine take no column, control characters have no width, wide ones take
\* two; for who takes the ambiguous ones for wide, those take two as well.
WidthsNamed ==
    /\ mk_wcwidth(0) = 0 /\ mk_wcwidth(7) = -1 /\ mk_wcwidth(127) = -1
    /\ mk_wcwidth(65) = 1 /\ mk_wcwidth(\h00AD) = 1
    /\ mk_wcwidth(\h200B) = 0 /\ mk_wcwidth(\h0300) = 0 /\ mk_wcwidth(\h11FF) = 0
    /\ mk_wcwidth(\h1100) = 2 /\ mk_wcwidth(\h4E00) = 2 /\ mk_wcwidth(\hFF01) = 2
    /\ mk_wcwidth(\h00A1) = 1 /\ mk_wcwidth_cjk(\h00A1) = 2
=============================================================================
