----------------------------- MODULE MCZipLoad ------------------------------
(* Words of two bytes, pages of two words, sectors of two pages and a flash of *)
(* two sectors: a program may begin and end anywhere in a page or a sector.    *)
EXTENDS ZipLoad
Header(a, bytes) == [p_paddr |-> a, p_filesz |-> Len(bytes), bytes |-> bytes]
Zero == {}
One == {0}
High == {1}
Full == {0, 1}
FlashTexts ==
    {<<One, Zero, High>>, <<One, High, Full, Full, High, One>>,
     <<One, Zero, Full, Full, Full, Full, Full, Full, High, One>>,
     <<One, Zero, One, Zero, High, One, One, One, Zero, Zero>>}
MCPrograms ==
    {[e_entry |-> FlashBase, phdr |-> <<Header(FlashBase, t)>>] : t \in FlashTexts}
    \cup {[e_entry |-> FlashBase + 2,
           phdr |-> <<Header(FlashBase + 10, <<One, Zero, High, High>>), Header(BkramBase, <<High>>),
                      Header(FlashBase + 2, <<Zero, High>>)>>]}
MCFlashes ==
    {[a \in 0 .. MemBytes - 1 |-> Full], [a \in 0 .. MemBytes - 1 |-> Zero],
     [a \in 0 .. MemBytes - 1 |->
        CASE a = 0 -> One [] a = 1 -> Zero [] a \in 2 .. 7 -> Full
          [] a = 8 -> High [] a = 9 -> One [] OTHER -> Zero]}
=============================================================================
