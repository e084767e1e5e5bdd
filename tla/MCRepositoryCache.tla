------------------------- MODULE MCRepositoryCache -------------------------
(* RepositoryCache on one document, one of each kind of key but findMultiple, *)
(* which differs from findMultiplePaging only in asking once.              *)
EXTENDS RepositoryCache

CONSTANT d1

MCAsked == {ById(d1), Paging}

=============================================================================
