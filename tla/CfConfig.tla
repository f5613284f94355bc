------------------------------ MODULE CfConfig ------------------------------
(* The table CfManage::Init builds: eleven classifiers that own the patterns *)
(* 1..19, in the order of their definition, and "UnIdentify", which owns     *)
(* none.  Pattern texts are left to the search; here a pattern is its id.    *)
EXTENDS Naturals, Sequences

CF_ID_BEGIN == 2000
CF_UN_IDENTIFY == 9999

\* A classifier whose state 0 goes to final states only; n states follow it.
Direct(port, n, trans) ==
    [port |-> port, fin |-> 1..n,
     next |-> [s \in 0..n |-> IF s = 0 THEN trans ELSE <<>>]]

\* Pattern 3 leads to state 2: state 3 is declared and never entered.
Google    == Direct(443, 3, [p \in 1..3 |-> IF p = 1 THEN 1 ELSE 2])
\* Mutant: the last of its states is not declared final.
YoutubeOpen == [Direct(443, 3, [p \in 4..6 |-> p - 3]) EXCEPT !.fin = 1..2]

Youtube   == Direct(443, 3, [p \in 4..6 |-> p - 3])
Zoom      == Direct(443, 1, [p \in {7} |-> 1])
Office365 == Direct(443, 1, [p \in {8} |-> 1])
QQ        == Direct(80, 1, [p \in {9} |-> 1])
Facebook  == Direct(443, 2, [p \in 10..11 |-> p - 9])
Whatsapp  == Direct(443, 1, [p \in {12} |-> 1])
Twitter   == Direct(443, 1, [p \in {13} |-> 1])

\* From state 0 by pattern 14 to state 1, from there by pattern 15 to state 2.
Successive == [s \in 0..2 |-> IF s = 0 THEN [p \in {14} |-> 1]
                              ELSE IF s = 1 THEN [p \in {15} |-> 2] ELSE <<>>]

\* Mutant: the state between the two packets is declared final.
OneNoteAtOnce == [port |-> 443, fin |-> {1, 2}, next |-> Successive]

\* The only classifier that needs two packets.
OneNote == [port |-> 443, fin |-> {2}, next |-> Successive]

Dropbox   == Direct(443, 1, [p \in {16} |-> 1])
Overleaf  == Direct(443, 3, [p \in 17..19 |-> p - 16])

\* NewClassifier numbers the classifiers from CF_ID_BEGIN as they are created.
Creation == <<Google, Youtube, Zoom, Office365, QQ, Facebook, Whatsapp,
              Twitter, OneNote, Dropbox, Overleaf>>

ConfigCf == {CF_ID_BEGIN + i - 1 : i \in DOMAIN Creation}
ConfigTable == [c \in ConfigCf |-> Creation[c - CF_ID_BEGIN + 1]]

\* NewPattern numbers the patterns from 1 across all classifiers.
ConfigPid == 1..19

PidsOf(c) == UNION {DOMAIN ConfigTable[c].next[s] :
                        s \in DOMAIN ConfigTable[c].next}

\* MapPatternCf
ConfigCfOf == [p \in ConfigPid |-> CHOOSE c \in ConfigCf : p \in PidsOf(c)]
=============================================================================
