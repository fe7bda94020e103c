SPECIFICATION Spec
CONSTANTS
    n1 = n1  n2 = n2  eonia = eonia
    NoId = 0  NoRow = NoRow  NoName = NoName
    Ids <- MCIds
    Names = {n1, n2}
    Catalog = {eonia}
    Documents <- MCDocuments
    Inherited <- MCInherited
    MaxImports = 2
    MaxEdits = 1
INVARIANTS TypeOK ImportedIsCreated OkMeansThere ReportAsPredicted CurvesFindIndices
