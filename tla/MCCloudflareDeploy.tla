------------------------- MODULE MCCloudflareDeploy -------------------------
(* CloudflareDeploy on a small instance. *)
EXTENDS CloudflareDeploy

File(n, s) == [name |-> n, size |-> s, symlink |-> FALSE]
Good == <<File("a", 1), File("b", 1), File("c", 2), File("d", 2)>>
MCTrees == {Good \o <<[name |-> "link", size |-> 9, symlink |-> TRUE]>>,
            Good \o <<File("huge", 9)>>, Good \o <<File("e", 1)>>}

(* Four files, two of them with the same content: three batches at most. *)
MCAssets == <<"a", "b", "c", "d">>
MCHash == [a |-> "h", b |-> "h", c |-> "i", d |-> "j"]
MCSize == [a |-> 1, b |-> 1, c |-> 2, d |-> 2]

(* A directory under "img", with "img-old" beside it in the bucket, and a  *)
(* file that is mapped to a name with a leading slash; "y" is large.       *)
To(lead, name, trail) == [lead |-> lead, name |-> name, trail |-> trail]
MCMappings == <<[isFile |-> FALSE, walk |-> <<"x", "y">>, to |-> To(FALSE, "img", TRUE)],
                [isFile |-> TRUE, walk |-> <<"z">>, to |-> To(TRUE, "logo", FALSE)]>>
MCMD5 == [x |-> "1", y |-> "2", z |-> "3"]
MCBegins == {<<"img", "img">>, <<"img", "img-old">>, <<"logo", "logo">>}
MCLarge == {"y"}
Single(md5) == [md5 |-> md5, parts |-> FALSE]
InParts(md5) == [md5 |-> md5, parts |-> TRUE]
MCKey(name, rest) == [lead |-> FALSE, name |-> name, rest |-> rest]
MCBuckets == {<<>>,
    [k \in {MCKey("img", "x"), MCKey("img", "gone"), MCKey("img-old", "x"), MCKey("css", "x")} |->
        Single("0")],
    [k \in {MCKey("img", "x"), MCKey("img", "y"), MCKey("logo", "")} |->
        IF k.rest = "y" THEN InParts("2") ELSE Single("1")]}

Worker1 == [name |-> "w1", script |-> "s", date |-> ""]
Worker2 == [name |-> "w2", script |-> "s", date |-> "malformed"]
Legacy == [name |-> "w1", script |-> "legacy", date |-> ""]
NoR2 == [accountId |-> FALSE, endpoint |-> FALSE, accessKeyId |-> FALSE,
         secretAccessKey |-> FALSE, bucket |-> FALSE, sync |-> <<>>]
Full == [accountId |-> TRUE, apiToken |-> TRUE, project |-> TRUE, branch |-> TRUE,
         r2 |-> [accountId |-> FALSE, endpoint |-> FALSE, accessKeyId |-> TRUE,
                 secretAccessKey |-> TRUE, bucket |-> TRUE, sync |-> MCMappings],
         workers |-> <<Worker1, Worker2>>, worker |-> <<Legacy>>]
MCConfigs == {Full, [Full EXCEPT !.r2 = NoR2, !.workers = <<>>],
              [Full EXCEPT !.apiToken = FALSE], [Full EXCEPT !.workers = <<>>, !.worker = <<>>]}
MCTargetLists == {<<>>, <<"pages">>, <<"r2">>, <<"worker">>, <<"pages", "r2">>, <<"ftp">>}
=============================================================================
