--------------------------- MODULE MCRecordCodec ---------------------------
(* Records that exercise every length: empty, the largest that fits, and    *)
(* (in Wide) one more than that.                                            *)
EXTENDS RecordCodec

Short == {<<>>, <<1>>, <<2, 0>>}

NoHeaders == [k \in {} |-> <<>>]

\* Between zero and two headers, one of them with an empty key.
Headers == {NoHeaders} \cup UNION {[keys -> {<<>>, <<1, 2>>}] : keys \in {{<<1>>}, {<<>>, <<2, 1>>}}}

MCRecords == [type : {1}, queue : {<<>>, <<2, 0>>}, job : Short, priority : {1}, tries : {0, 2},
              maxRetries : {2}, eta : {0, 3}, payload : {<<>>, <<1, 0, 2>>},
              headers : Headers, lease : {<<1>>}, reason : Short]

\* Strings and header maps of the first size that does not fit.
MCWideRecords ==
    [type : {1}, queue : {<<1>>, <<1, 0, 2>>}, job : {<<1>>}, priority : {1}, tries : {0},
     maxRetries : {2}, eta : {2}, payload : {<<1>>},
     headers : {NoHeaders} \cup [{<<1>>} -> {<<1>>, <<2, 0, 1>>}]
               \cup [{<<0>>, <<1>>, <<2>>} -> {<<>>}],
     lease : {<<1>>}, reason : {<<>>, <<2, 1, 0>>}]
=============================================================================
