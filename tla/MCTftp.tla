------------------------------- MODULE MCTftp -------------------------------
(* TFTP for TLC: one name, for two files in turn.  One client sends its      *)
(* request twice, with options; the other once, or one that is wrong.        *)
EXTENDS Tftp

MCContent == [i \in Inode |-> IF i = "old" THEN <<"x", "LF">> ELSE <<"LF">>]
MCDisks == <<[means |-> [n \in {"f"} |-> "old"], cut |-> {}],
             [means |-> [n \in {"f"} |-> "new"], cut |-> {"old"}]>>

Asks(mode, blksize, tsize) == [name |-> "f", mode |-> mode, blksize |-> blksize, tsize |-> tsize]
MCRequests ==
    [p \in Peer |-> IF p = "a" THEN {Asks("octet", 9, TRUE)}
                    ELSE {Asks("octet", 0, FALSE), Asks("mail", 0, FALSE)}]
MCMaxRequests == [p \in Peer |-> IF p = "a" THEN 2 ELSE 1]

(* One client, which asks for netascii; all that is in its file is LF.       *)
NetasciiContent == [i \in Inode |-> <<"LF", "LF", "LF">>]
NetasciiRequests == [p \in Peer |-> {Asks("netascii", 9, FALSE)}]
=============================================================================
