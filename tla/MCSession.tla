----------------------------- MODULE MCSession -----------------------------
\* Session with addresses of two bytes and keys of two digits to the base
\* four.
EXTENDS Session

Usual ==
    [port |-> 1700, addr |-> [digits |-> 8, value |-> 258], address |-> 258,
     nwk |-> [hi |-> 2, lo |-> 1], app |-> [hi |-> 2, lo |-> 2],
     fPort |-> 10, fCnt |-> 65535]

\* Numbers at and past their widths, with the usual keys.
NumberFiles ==
    {[Usual EXCEPT !.port = port] : port \in {-65536, -1, 0, 67236}}
    \union {[Usual EXCEPT !.fPort = fPort] : fPort \in {-1, 0, 255, 256, 266}}
    \union {[Usual EXCEPT !.fCnt = fCnt] : fCnt \in {-1, 0}}

\* Addresses under either name, of either length, that fit or do not.
AddressFiles ==
    {[Usual EXCEPT !.addr = addr, !.address = address] :
        addr \in {Absent, [digits |-> 4, value |-> 0]}
            \union {[digits |-> 8, value |-> n] : n \in {0, 258, 65535, 65536}},
        address \in {0, 258, 65535}}

\* Keys whose lower halves wrap, with upper halves equal or one apart.
KeyFiles ==
    {[Usual EXCEPT !.nwk.lo = nwkLo, !.app = [hi |-> appHi, lo |-> appLo]] :
        nwkLo \in {1, 3}, appHi \in {1, 2}, appLo \in {1, 3}}

\* A file by README.md of the first address, whose two keys have upper halves
\* of their own or not.
MCDocumentedFiles ==
    {[Usual EXCEPT !.addr = Absent, !.address = 0, !.app.hi = appHi] : appHi \in {1, 2}}

MCFiles == NumberFiles \union AddressFiles \union KeyFiles

Data ==
    [mType |-> UnconfirmedDataDown, rfu |-> 0, major |-> 0, flags |-> 0,
     fCnt |-> 300, fOpts |-> <<>>, fPort |-> 5, data |-> <<1, 200, 3>>]

Headers ==
    {[Data EXCEPT !.mType = mType, !.rfu = rfu, !.major = 3 * rfu] :
        mType \in 0..7, rfu \in {0, 1}}

Bodies ==
    {d \in {[Data EXCEPT !.flags = 11, !.fCnt = fCnt, !.fOpts = fOpts, !.fPort = fPort, !.data = data] :
                fCnt \in {0, 65541}, fOpts \in {<<>>, <<7, 0>>}, fPort \in {0, 5, NoPort},
                data \in {<<>>, <<9>>}} :
        d.data # <<>> => d.fPort # NoPort}

LongOptions == [Data EXCEPT !.fOpts = [i \in 1..15 |-> i]]

MCDownlinks == Headers \union Bodies \union {LongOptions}

MCPayload == <<116, 101, 115, 116, 255>>
=============================================================================
