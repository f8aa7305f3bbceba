---- MODULE MCFileStore ----
(* FileStore for clients of two users; one of the users may be logged in twice. *)
EXTENDS FileStore, TLC
CONSTANTS a, s1, s2, s3, u1, u2
OnceEach  == (s1 :> u1) @@ (s2 :> u2)
OneTwice  == OnceEach @@ (s3 :> u2)
OneClient == s1 :> u1
Symmetric == Permutations(Worker) \cup Permutations(Content)

Typed == {<<a>>, <<a, Sep>>, <<a, Sep, a>>, <<a, Sep, Sep>>}

\* Bounds.  Paths are not longer than that of four plain names.  Either no file is ever
\* uploaded, and there are two rows of any users or four of one who is logged in once, one
\* name at most not plain; or that user uploads and works with two rows.
ShortPaths == \A s \in Session : Len(path[s]) <= 2 * MaxId
FewRows    == nextId <= 3
OneUser    == /\ \A s \in Session \ {s1} : path[s] = Slash
              /\ \A r \in userFile : r.owner = u1
OneOddName == \A r, q \in userFile : Plain(r.name) \/ Plain(q.name) \/ r = q
AllPlain   == \A r \in userFile : Plain(r.name)
OnlyUploads == \A w \in Worker : job[w] # Idle => job[w].name = <<a>> /\ job[w].s = s1
NoUploads  == /\ \A w \in Worker : job[w] = Idle
              /\ \A c \in Content : disk[c] = "absent"
Bound == /\ ShortPaths
         /\ \/ NoUploads /\ (FewRows \/ (OneUser /\ OneOddName))
            \/ FewRows /\ OneUser /\ AllPlain /\ OnlyUploads
====
