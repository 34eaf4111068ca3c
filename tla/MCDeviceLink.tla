---------------------------- MODULE MCDeviceLink ----------------------------
(* Commands for the runs of DeviceLink: two versions of an app, a resource *)
(* of it, a temporary app, a book, and the single requests.                *)
EXTENDS DeviceLink
CONSTANTS a, b, book, long, image, none

Job(kind, name, path, file) == [kind |-> kind, name |-> name, path |-> path, file |-> file]

Old == <<1, 2, 3>>
New == <<4, 5>>
MCFiles == {Old, New, <<6>>, <<>>}
MCNames == {a, b, book, long}

MCJobs ==
    {Job("install", a, none, Old), Job("install", a, none, New), Job("install", b, none, <<>>),
     Job("install", b, none, New), Job("temp", a, none, New), Job("resource", a, image, <<6>>),
     Job("content", book, none, Old), Job("check", book, none, Old),
     Job("delete", book, none, <<>>), Job("reset", book, none, <<>>)}

(* The registry has room for one app, and a commit is sent once more.      *)
MCRetryJobs ==
    {Job("install", a, none, New), Job("install", b, none, New), Job("commit", b, none, <<>>)}
=============================================================================
