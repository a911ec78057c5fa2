------------------------------ MODULE VnTables ------------------------------
(***************************************************************************)
(* The charsets of the converter (vnconv/data.cpp): for each of the 213    *)
(* characters of the standard charset its code, in the order of the        *)
(* source.  Where the source writes a regular table by hand it is defined  *)
(* here by its rule.                                                       *)
(***************************************************************************)
EXTENDS Integers, Sequences, TLC

TOTAL_VNCHARS == 213
TOTAL_ALPHA_VNCHARS == 186        \* the rest are symbols of Western charsets
Indices == 0 .. TOTAL_VNCHARS - 1

\* The first of the twelve forms of each vowel: six tones, each as a capital and
\* as a small letter.
VowelRows == {0, 12, 24, 44, 56, 74, 96, 108, 120, 142, 154, 172}
IsVowelForm(i) == \E b \in VowelRows : i \in b .. b + 11
Row(i) == CHOOSE b \in VowelRows : i \in b .. b + 11
ToneOf(i) == IF IsVowelForm(i) THEN (i - Row(i)) \div 2 ELSE 0

\* StdVnNoTone, StdVnRootChar: the letter without its tone, and then without its
\* mark (that of a row, but for the barred d).
NoTone(i) == IF IsVowelForm(i) THEN Row(i) + ((i - Row(i)) % 2) ELSE i
UnmarkedRow(b) == CASE b \in {12, 24} -> 0 [] b = 56 -> 44 [] b \in {108, 120} -> 96
                    [] b = 154 -> 142 [] OTHER -> b
StdVnRootChar(i) ==
  CASE IsVowelForm(i) -> UnmarkedRow(Row(i)) + ((i - Row(i)) % 2)
    [] i \in {42, 43} -> i - 2
    [] OTHER -> i

UnicodeTable == <<
    65, 97, 193, 225, 192, 224, 7842, 7843, 195, 227, 7840, 7841, 194, 226, 7844,
    7845, 7846, 7847, 7848, 7849, 7850, 7851, 7852, 7853, 258, 259, 7854, 7855,
    7856, 7857, 7858, 7859, 7860, 7861, 7862, 7863, 66, 98, 67, 99, 68, 100, 272,
    273, 69, 101, 201, 233, 200, 232, 7866, 7867, 7868, 7869, 7864, 7865, 202, 234,
    7870, 7871, 7872, 7873, 7874, 7875, 7876, 7877, 7878, 7879, 70, 102, 71, 103,
    72, 104, 73, 105, 205, 237, 204, 236, 7880, 7881, 296, 297, 7882, 7883, 74, 106,
    75, 107, 76, 108, 77, 109, 78, 110, 79, 111, 211, 243, 210, 242, 7886, 7887,
    213, 245, 7884, 7885, 212, 244, 7888, 7889, 7890, 7891, 7892, 7893, 7894, 7895,
    7896, 7897, 416, 417, 7898, 7899, 7900, 7901, 7902, 7903, 7904, 7905, 7906,
    7907, 80, 112, 81, 113, 82, 114, 83, 115, 84, 116, 85, 117, 218, 250, 217, 249,
    7910, 7911, 360, 361, 7908, 7909, 431, 432, 7912, 7913, 7914, 7915, 7916, 7917,
    7918, 7919, 7920, 7921, 86, 118, 87, 119, 88, 120, 89, 121, 221, 253, 7922,
    7923, 7926, 7927, 7928, 7929, 7924, 7925, 90, 122, 8364, 8353, 402, 8222, 8230,
    8224, 8225, 710, 8240, 352, 8249, 338, 381, 8216, 8217, 8220, 8221, 8226, 8211,
    8212, 732, 8482, 353, 8250, 339, 382, 376>>

WesternSymbols == <<
    128, 130, 131, 132, 133, 134, 135, 136, 137, 138, 139, 140, 142, 145, 146, 147,
    148, 149, 150, 151, 152, 153, 154, 155, 156, 158, 159>>

\* UnicodeComposite and WinCP1258: a letter without its tone and a mark for it.
Composed(i, letter, toneMarks) ==
  IF ToneOf(i) = 0 THEN <<letter>> ELSE <<letter, toneMarks[ToneOf(i)]>>
UnicodeComposite ==
  [i \in Indices |-> Composed(i, UnicodeTable[NoTone(i) + 1], <<769, 768, 777, 771, 803>>)]

CP1258Own ==                  \* letters whose code is not that of Unicode
  24 :> 195 @@ 25 :> 227 @@ 42 :> 208 @@ 43 :> 240 @@ 120 :> 213 @@ 121 :> 245
  @@ 154 :> 221 @@ 155 :> 253
CP1258Letter(i) ==
  CASE i \in DOMAIN CP1258Own -> CP1258Own[i]
    [] i >= TOTAL_ALPHA_VNCHARS -> WesternSymbols[i - TOTAL_ALPHA_VNCHARS + 1]
    [] OTHER -> UnicodeTable[i + 1]
WinCP1258 ==
  [i \in Indices |-> Composed(i, CP1258Letter(NoTone(i)), <<236, 204, 210, 222, 242>>)]

\* WinCP1258Pre differs for these letters, which Windows has whole.
WinCP1258Pre ==
  [i \in Indices |-> IF i \in {2, 3, 4, 5, 46, 47, 48, 49, 76, 77, 98, 99, 144, 145, 146, 147}
                   THEN <<UnicodeTable[i + 1]>> ELSE WinCP1258[i]]

\* VIQRTable: the letter, its mark and its tone.
VIQRMark(b) == CASE b \in {12, 56, 108} -> <<94>> [] b = 24 -> <<40>>
                 [] b \in {120, 154} -> <<43>>      [] OTHER -> <<>>
VIQRTones == <<39, 96, 63, 126, 46>>
VIQRTable == [i \in Indices |->
  IF i >= TOTAL_ALPHA_VNCHARS THEN <<WesternSymbols[i - TOTAL_ALPHA_VNCHARS + 1]>>
  ELSE LET letter == UnicodeTable[StdVnRootChar(i) + 1] IN
       CASE i \in {42, 43} -> <<letter, letter>>
         [] IsVowelForm(i) -> <<letter>> \o VIQRMark(Row(i))
              \o (IF ToneOf(i) = 0 THEN <<>> ELSE <<VIQRTones[ToneOf(i)]>>)
         [] OTHER -> <<letter>>]

SingleByteTables == [
  TCVN3 |-> <<
    65, 97, 184, 184, 181, 181, 182, 182, 183, 183, 185, 185, 162, 169, 202, 202,
    199, 199, 200, 200, 201, 201, 203, 203, 161, 168, 190, 190, 187, 187, 188, 188,
    189, 189, 198, 198, 66, 98, 67, 99, 68, 100, 167, 174, 69, 101, 208, 208, 204,
    204, 206, 206, 207, 207, 209, 209, 163, 170, 213, 213, 210, 210, 211, 211, 212,
    212, 214, 214, 70, 102, 71, 103, 72, 104, 73, 105, 221, 221, 215, 215, 216, 216,
    220, 220, 222, 222, 74, 106, 75, 107, 76, 108, 77, 109, 78, 110, 79, 111, 227,
    227, 223, 223, 225, 225, 226, 226, 228, 228, 164, 171, 232, 232, 229, 229, 230,
    230, 231, 231, 233, 233, 165, 172, 237, 237, 234, 234, 235, 235, 236, 236, 238,
    238, 80, 112, 81, 113, 82, 114, 83, 115, 84, 116, 85, 117, 243, 243, 239, 239,
    241, 241, 242, 242, 244, 244, 166, 173, 248, 248, 245, 245, 246, 246, 247, 247,
    249, 249, 86, 118, 87, 119, 88, 120, 89, 121, 253, 253, 250, 250, 251, 251, 252,
    252, 254, 254, 90, 122, 128, 130, 131, 132, 133, 134, 135, 136, 137, 138, 139,
    140, 142, 145, 146, 147, 148, 149, 150, 151, 152, 153, 154, 155, 156, 158, 159>>,
  VPS |-> <<
    65, 97, 193, 225, 128, 224, 129, 228, 130, 227, 229, 229, 194, 226, 131, 195,
    132, 192, 133, 196, 197, 197, 198, 198, 136, 230, 141, 161, 142, 162, 143, 163,
    240, 164, 165, 165, 66, 98, 67, 99, 68, 100, 241, 199, 69, 101, 201, 233, 215,
    232, 222, 200, 254, 235, 203, 203, 202, 234, 144, 137, 147, 138, 148, 139, 149,
    205, 140, 140, 70, 102, 71, 103, 72, 104, 73, 105, 180, 237, 181, 236, 183, 204,
    184, 239, 206, 206, 74, 106, 75, 107, 76, 108, 77, 109, 78, 110, 79, 111, 185,
    243, 188, 242, 189, 213, 190, 245, 134, 134, 212, 244, 150, 211, 151, 210, 152,
    176, 153, 135, 182, 182, 247, 214, 157, 167, 158, 169, 159, 170, 166, 171, 174,
    174, 80, 112, 81, 113, 82, 114, 83, 115, 84, 116, 85, 117, 218, 250, 168, 249,
    209, 251, 172, 219, 248, 248, 208, 220, 173, 217, 175, 216, 177, 186, 187, 187,
    191, 191, 86, 118, 87, 119, 88, 120, 89, 121, 221, 154, 178, 255, 253, 155, 179,
    207, 156, 156, 90, 122, 0, 0, 0, 0, 0, 0, 0, 0, 0, 0, 0, 0, 142, 145, 146, 0, 0,
    0, 0, 0, 0, 0, 0, 0, 0, 158, 0>>,
  VISCII |-> <<
    65, 97, 193, 225, 192, 224, 196, 228, 195, 227, 128, 213, 194, 226, 132, 164,
    133, 165, 134, 166, 231, 231, 135, 167, 197, 229, 129, 161, 130, 162, 198, 198,
    199, 199, 131, 163, 66, 98, 67, 99, 68, 100, 208, 240, 69, 101, 201, 233, 200,
    232, 203, 235, 136, 168, 137, 169, 202, 234, 138, 170, 139, 171, 140, 172, 141,
    173, 142, 174, 70, 102, 71, 103, 72, 104, 73, 105, 205, 237, 204, 236, 155, 239,
    206, 238, 152, 184, 74, 106, 75, 107, 76, 108, 77, 109, 78, 110, 79, 111, 211,
    243, 210, 242, 153, 246, 245, 245, 154, 247, 212, 244, 143, 175, 144, 176, 145,
    177, 146, 178, 147, 181, 180, 189, 149, 190, 150, 182, 151, 183, 179, 222, 148,
    254, 80, 112, 81, 113, 82, 114, 83, 115, 84, 116, 85, 117, 218, 250, 217, 249,
    156, 252, 157, 251, 158, 248, 191, 223, 186, 209, 187, 215, 188, 216, 255, 230,
    185, 241, 86, 118, 87, 119, 88, 120, 89, 121, 221, 253, 159, 207, 214, 214, 219,
    219, 220, 220, 90, 122, 128, 0, 0, 0, 0, 0, 0, 0, 0, 0, 0, 0, 142, 0, 0, 0, 0,
    0, 0, 0, 0, 0, 0, 0, 0, 158, 0>>,
  BKHCM1 |-> <<
    65, 97, 128, 190, 129, 191, 130, 192, 131, 193, 132, 194, 159, 221, 126, 222,
    161, 223, 162, 224, 163, 225, 164, 226, 153, 215, 154, 216, 155, 217, 156, 218,
    157, 219, 152, 220, 66, 98, 67, 99, 68, 100, 125, 189, 69, 101, 133, 195, 134,
    196, 135, 197, 136, 198, 137, 199, 165, 227, 166, 228, 167, 229, 168, 230, 169,
    231, 170, 232, 70, 102, 71, 103, 72, 104, 73, 105, 138, 200, 139, 201, 140, 202,
    141, 203, 142, 204, 74, 106, 75, 107, 76, 108, 77, 109, 78, 110, 79, 111, 143,
    205, 144, 206, 145, 207, 146, 208, 147, 209, 171, 233, 172, 234, 173, 235, 174,
    236, 175, 237, 176, 238, 177, 239, 178, 240, 179, 241, 180, 242, 181, 243, 182,
    244, 80, 112, 81, 113, 82, 114, 83, 115, 84, 116, 85, 117, 148, 210, 149, 211,
    150, 212, 151, 213, 152, 214, 183, 245, 184, 246, 185, 247, 186, 248, 187, 249,
    188, 250, 86, 118, 87, 119, 88, 120, 89, 121, 123, 251, 94, 252, 96, 253, 124,
    254, 142, 255, 90, 122, 128, 0, 0, 0, 0, 0, 0, 0, 0, 0, 0, 0, 142, 0, 0, 0, 0,
    0, 0, 0, 0, 0, 0, 0, 0, 158, 0>>,
  VIETWAREF |-> <<
    65, 97, 192, 192, 170, 170, 182, 182, 186, 186, 193, 193, 151, 161, 202, 202,
    199, 199, 200, 200, 201, 201, 203, 203, 150, 159, 197, 197, 194, 194, 195, 195,
    196, 196, 198, 198, 66, 98, 67, 99, 68, 100, 152, 162, 69, 101, 207, 207, 204,
    204, 205, 205, 206, 206, 209, 209, 153, 163, 213, 213, 210, 210, 211, 211, 212,
    212, 214, 214, 70, 102, 71, 103, 72, 104, 73, 105, 219, 219, 216, 216, 217, 217,
    218, 218, 220, 220, 74, 106, 75, 107, 76, 108, 77, 109, 78, 110, 79, 111, 226,
    226, 223, 223, 224, 224, 225, 225, 227, 227, 154, 164, 231, 231, 228, 228, 229,
    229, 230, 230, 232, 232, 155, 165, 236, 236, 233, 233, 234, 234, 235, 235, 237,
    237, 80, 112, 81, 113, 82, 114, 83, 115, 84, 116, 85, 117, 242, 242, 238, 238,
    239, 239, 241, 241, 243, 243, 156, 167, 247, 247, 244, 244, 245, 245, 246, 246,
    248, 248, 86, 118, 87, 119, 88, 120, 89, 121, 252, 252, 249, 249, 250, 250, 251,
    251, 255, 255, 90, 122, 128, 130, 131, 132, 133, 134, 135, 136, 137, 138, 139,
    140, 142, 145, 146, 147, 148, 149, 0, 0, 0, 0, 0, 0, 0, 158, 0>>,
  ISC |-> <<
    65, 97, 131, 184, 128, 181, 129, 182, 130, 183, 132, 185, 162, 169, 196, 160,
    193, 199, 194, 200, 195, 201, 134, 203, 161, 168, 192, 190, 175, 187, 186, 188,
    191, 189, 133, 198, 66, 98, 67, 99, 68, 100, 167, 174, 69, 101, 208, 138, 135,
    204, 136, 206, 137, 207, 209, 139, 163, 170, 218, 213, 197, 210, 205, 211, 217,
    212, 140, 214, 70, 102, 71, 103, 72, 104, 73, 105, 144, 221, 141, 215, 142, 216,
    143, 220, 145, 222, 74, 106, 75, 107, 76, 108, 77, 109, 78, 110, 79, 111, 149,
    227, 146, 223, 147, 225, 148, 226, 150, 228, 164, 171, 255, 232, 219, 229, 224,
    230, 240, 231, 151, 233, 165, 172, 155, 237, 152, 234, 153, 235, 154, 236, 156,
    238, 80, 112, 81, 113, 82, 114, 83, 115, 84, 116, 85, 117, 64, 243, 157, 239,
    158, 241, 159, 242, 124, 244, 166, 173, 96, 248, 92, 245, 94, 246, 126, 247, 35,
    249, 86, 118, 87, 119, 88, 120, 89, 121, 179, 253, 176, 250, 177, 251, 178, 252,
    180, 254, 90, 122, 0, 0, 0, 0, 0, 0, 0, 0, 0, 0, 0, 0, 0, 17, 18, 19, 20, 0, 0,
    0, 0, 0, 0, 0, 0, 0, 0>>]

\* A code of two bytes is the letter and then the mark, as low and high byte.
DoubleByteTables == [
  VNIWIN |-> <<
    65, 97, 55617, 63841, 55361, 63585, 56129, 64353, 54593, 62817, 53057, 61281,
    49729, 57953, 49473, 57697, 49217, 57441, 50497, 58721, 49985, 58209, 50241,
    58465, 51777, 60001, 51521, 59745, 51265, 59489, 55873, 64097, 56385, 64609,
    52033, 60257, 66, 98, 67, 99, 68, 100, 209, 241, 69, 101, 55621, 63845, 55365,
    63589, 56133, 64357, 54597, 62821, 53061, 61285, 49733, 57957, 49477, 57701,
    49221, 57445, 50501, 58725, 49989, 58213, 50245, 58469, 70, 102, 71, 103, 72,
    104, 73, 105, 205, 237, 204, 236, 198, 230, 211, 243, 210, 242, 74, 106, 75,
    107, 76, 108, 77, 109, 78, 110, 79, 111, 55631, 63855, 55375, 63599, 56143,
    64367, 54607, 62831, 53071, 61295, 49743, 57967, 49487, 57711, 49231, 57455,
    50511, 58735, 49999, 58223, 50255, 58479, 212, 244, 55764, 63988, 55508, 63732,
    56276, 64500, 54740, 62964, 53204, 61428, 80, 112, 81, 113, 82, 114, 83, 115,
    84, 116, 85, 117, 55637, 63861, 55381, 63605, 56149, 64373, 54613, 62837, 53077,
    61301, 214, 246, 55766, 63990, 55510, 63734, 56278, 64502, 54742, 62966, 53206,
    61430, 86, 118, 87, 119, 88, 120, 89, 121, 55641, 63865, 55385, 63609, 56153,
    64377, 54617, 62841, 206, 238, 90, 122, 128, 130, 131, 132, 133, 134, 135, 136,
    137, 138, 139, 140, 142, 145, 146, 147, 148, 149, 150, 151, 152, 153, 154, 155,
    156, 158, 159>>,
  BKHCM2 |-> <<
    65, 97, 49473, 57697, 49729, 57953, 49985, 58209, 50241, 58465, 50497, 58721,
    202, 234, 52170, 60394, 52426, 60650, 52682, 60906, 52938, 61162, 50634, 58858,
    217, 249, 50905, 59129, 51161, 59385, 51417, 59641, 51673, 59897, 50649, 58873,
    66, 98, 67, 99, 68, 100, 192, 224, 69, 101, 49477, 57701, 49733, 57957, 49989,
    58213, 50245, 58469, 50501, 58725, 207, 239, 52175, 60399, 52431, 60655, 52687,
    60911, 52943, 61167, 58831, 58863, 70, 102, 71, 103, 72, 104, 73, 105, 209, 241,
    210, 242, 211, 243, 212, 244, 213, 245, 74, 106, 75, 107, 76, 108, 77, 109, 78,
    110, 79, 111, 49487, 57711, 49743, 57967, 49999, 58223, 50255, 58479, 50511,
    58735, 214, 246, 52182, 60406, 52438, 60662, 52694, 60918, 52950, 61174, 50646,
    58870, 218, 250, 49626, 57850, 49882, 58106, 50138, 58362, 50394, 58618, 50650,
    58874, 80, 112, 81, 113, 82, 114, 83, 115, 84, 116, 85, 117, 49493, 57717,
    49749, 57973, 50005, 58229, 50261, 58485, 50517, 58741, 219, 251, 49627, 57851,
    49883, 58107, 50139, 58363, 50395, 58619, 50651, 58875, 86, 118, 87, 119, 88,
    120, 89, 121, 49497, 57721, 49753, 57977, 50009, 58233, 50265, 58489, 50521,
    58745, 90, 122, 128, 130, 131, 132, 133, 134, 135, 136, 137, 138, 139, 140, 142,
    145, 146, 147, 148, 149, 150, 151, 152, 153, 154, 155, 156, 158, 159>>,
  VIETWAREX |-> <<
    65, 97, 53057, 61281, 52289, 60513, 52545, 60769, 52801, 61025, 56129, 64353,
    193, 225, 56001, 64225, 54977, 63201, 55489, 63713, 55745, 63969, 56257, 64481,
    192, 224, 54720, 62944, 53952, 62176, 54208, 62432, 54464, 62688, 56256, 64480,
    66, 98, 67, 99, 68, 100, 194, 226, 69, 101, 53061, 61285, 52293, 60517, 52549,
    60773, 52805, 61029, 56133, 64357, 195, 227, 56003, 64227, 54979, 63203, 55491,
    63715, 55747, 63971, 56259, 64483, 70, 102, 71, 103, 72, 104, 73, 105, 202, 234,
    199, 231, 200, 232, 201, 233, 203, 235, 74, 106, 75, 107, 76, 108, 77, 109, 78,
    110, 79, 111, 53071, 61295, 52303, 60527, 52559, 60783, 52815, 61039, 56399,
    64623, 196, 228, 56004, 64228, 54980, 63204, 55492, 63716, 55748, 63972, 56516,
    64740, 197, 229, 53189, 61413, 52421, 60645, 52677, 60901, 52933, 61157, 56517,
    64741, 80, 112, 81, 113, 82, 114, 83, 115, 84, 116, 85, 117, 53077, 61301,
    52309, 60533, 52565, 60789, 52821, 61045, 56149, 64373, 198, 230, 53190, 61414,
    52422, 60646, 52678, 60902, 52934, 61158, 56262, 64486, 86, 118, 87, 119, 88,
    120, 89, 121, 53081, 61305, 52313, 60537, 52569, 60793, 52825, 61049, 53593,
    61817, 90, 122, 128, 130, 131, 132, 133, 134, 135, 136, 137, 138, 139, 140, 142,
    145, 146, 147, 148, 149, 150, 151, 152, 153, 154, 155, 156, 158, 159>>,
  VNIMAC |-> <<
    65, 97, 62529, 40289, 44865, 48993, 62273, 40545, 52545, 39777, 60481, 38241,
    58689, 35169, 59201, 34657, 52033, 34913, 33089, 35937, 52289, 35681, 32833,
    35425, 58945, 36961, 33601, 36449, 59713, 36705, 62017, 40033, 34369, 40801,
    59457, 37217, 66, 98, 67, 99, 68, 100, 132, 150, 69, 101, 62533, 40293, 44869,
    48997, 62277, 40549, 52549, 39781, 60485, 38245, 58693, 35173, 59205, 34661,
    52037, 34917, 33093, 35941, 52293, 35685, 32837, 35429, 70, 102, 71, 103, 72,
    104, 73, 105, 234, 146, 237, 147, 174, 190, 238, 151, 241, 152, 74, 106, 75,
    107, 76, 108, 77, 109, 78, 110, 79, 111, 62543, 40303, 44879, 49007, 62287,
    40559, 52559, 39791, 60495, 38255, 58703, 35183, 59215, 34671, 52047, 34927,
    33103, 35951, 52303, 35695, 32847, 35439, 239, 153, 62703, 40345, 45039, 49049,
    62447, 40601, 52719, 39833, 60655, 38297, 80, 112, 81, 113, 82, 114, 83, 115,
    84, 116, 85, 117, 62549, 40309, 44885, 49013, 62293, 40565, 52565, 39797, 60501,
    38261, 133, 154, 62597, 40346, 44933, 49050, 62341, 40602, 52613, 39834, 60549,
    38298, 86, 118, 87, 119, 88, 120, 89, 121, 62553, 40313, 44889, 49017, 62297,
    40569, 52569, 39801, 235, 148, 90, 122, 219, 226, 196, 227, 201, 160, 224, 246,
    228, 63, 220, 206, 63, 212, 213, 210, 211, 165, 208, 209, 247, 170, 63, 221,
    207, 63, 217>>]
=============================================================================
