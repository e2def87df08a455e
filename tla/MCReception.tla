----------------------------- MODULE MCReception -----------------------------
EXTENDS Reception

MCPackBodies == {BasicId \o BasicId \o BasicId}
MCLatitudes == {-900000001, -900000000, -1, 0, 900000000, 900000001, 1523000000}
MCLongitudes == {-1800000001, -1800000000, -1, 0, 1800000000, 1800000001}
MCSent ==
    {BasicId, Located(5, -5), Located(900000001, 0), <<64, 1>> \o Int32Bytes(7) \o Int32Bytes(-7) \o Zeros(15),
     <<80, 0, 79, 80>> \o Zeros(21), AnyPack, PackOf(<<BasicId, Located(5, -5), <<32>> \o Zeros(24)>>),
     PackOf([i \in 1..9 |-> IF i = 9 THEN BasicId ELSE Located(i, -i)])}

=============================================================================
